---- MODULE Spec2Model ----
(***************************************************************************)
(* Rocket Shipment voice agent: the dialogue engine (ai_agent.py), the     *)
(* logistics tools (logistics_tools.py), the shipment store (database.py)  *)
(* and the webhook loop that drives them (main.py).                        *)
(*                                                                         *)
(* Utterances, keywords, tracking identifiers, names, addresses, dates and *)
(* messages are TLA+ strings; substring tests, lower-casing, stripping and *)
(* the tracking-id pattern are computed character by character.            *)
(***************************************************************************)
EXTENDS Integers, Sequences, FiniteSets, TLC

VARIABLES store, active_calls, last, verified, turns, in_flight

vars == <<store, active_calls, last, verified, turns, in_flight>>

(***************************************************************************)
(* Strings                                                                 *)
(***************************************************************************)

\* Python None
None == "<None>"

Digits == {"0", "1", "2", "3", "4", "5", "6", "7", "8", "9"}

LowerLetters == {"a", "b", "c", "d", "e", "f", "g", "h", "i", "j", "k", "l", "m",
                 "n", "o", "p", "q", "r", "s", "t", "u", "v", "w", "x", "y", "z"}

UpperLetters == {"A", "B", "C", "D", "E", "F", "G", "H", "I", "J", "K", "L", "M",
                 "N", "O", "P", "Q", "R", "S", "T", "U", "V", "W", "X", "Y", "Z"}

LowerOf == [c \in UpperLetters |->
              CASE c = "A" -> "a" [] c = "B" -> "b" [] c = "C" -> "c" [] c = "D" -> "d"
                [] c = "E" -> "e" [] c = "F" -> "f" [] c = "G" -> "g" [] c = "H" -> "h"
                [] c = "I" -> "i" [] c = "J" -> "j" [] c = "K" -> "k" [] c = "L" -> "l"
                [] c = "M" -> "m" [] c = "N" -> "n" [] c = "O" -> "o" [] c = "P" -> "p"
                [] c = "Q" -> "q" [] c = "R" -> "r" [] c = "S" -> "s" [] c = "T" -> "t"
                [] c = "U" -> "u" [] c = "V" -> "v" [] c = "W" -> "w" [] c = "X" -> "x"
                [] c = "Y" -> "y" [] c = "Z" -> "z"]

UpperOf == [c \in LowerLetters |-> CHOOSE u \in UpperLetters : LowerOf[u] = c]

CharAt(s, i) == SubSeq(s, i, i)

IsLetter(c) == c \in LowerLetters \cup UpperLetters

\* \w of the re module: letters, digits and the underscore
IsWordChar(c) == IsLetter(c) \/ c \in Digits \/ c = "_"

\* str.isspace for the characters that occur in speech transcripts
IsSpace(c) == c = " "

\* k in s
Contains(s, k) ==
    \E i \in 1..(Len(s) - Len(k) + 1) : SubSeq(s, i, i + Len(k) - 1) = k

\* any(k in s for k in keywords)
ContainsAny(s, keywords) == \E k \in keywords : Contains(s, k)

\* s.endswith(k)
EndsWith(s, k) == Len(s) >= Len(k) /\ SubSeq(s, Len(s) - Len(k) + 1, Len(s)) = k

LowerChar(s, i) ==
    LET c == CharAt(s, i) IN IF c \in UpperLetters THEN LowerOf[c] ELSE c

RECURSIVE LowerFrom(_, _)
LowerFrom(s, i) == IF i > Len(s) THEN "" ELSE LowerChar(s, i) \o LowerFrom(s, i + 1)

\* str.lower
Lower(s) == LowerFrom(s, 1)

UpperChar(s, i) ==
    LET c == CharAt(s, i) IN IF c \in LowerLetters THEN UpperOf[c] ELSE c

RECURSIVE UpperFrom(_, _)
UpperFrom(s, i) == IF i > Len(s) THEN "" ELSE UpperChar(s, i) \o UpperFrom(s, i + 1)

\* str.upper
Upper(s) == UpperFrom(s, 1)

TitleChar(s, i) ==
    LET c == CharAt(s, i)
        first == i = 1 \/ ~IsLetter(CharAt(s, i - 1))
    IN  IF first /\ c \in LowerLetters THEN UpperOf[c]
        ELSE IF ~first /\ c \in UpperLetters THEN LowerOf[c]
        ELSE c

RECURSIVE TitleFrom(_, _)
TitleFrom(s, i) == IF i > Len(s) THEN "" ELSE TitleChar(s, i) \o TitleFrom(s, i + 1)

\* str.title: a letter that follows a non-letter is upper-cased, any other
\* letter lower-cased
Title(s) == TitleFrom(s, 1)

\* str.strip
Strip(s) ==
    LET nonspace == {i \in 1..Len(s) : ~IsSpace(CharAt(s, i))}
    IN  IF nonspace = {} THEN ""
        ELSE SubSeq(s, CHOOSE i \in nonspace : \A j \in nonspace : i <= j,
                       CHOOSE i \in nonspace : \A j \in nonspace : i >= j)

\* str.zfill(2) of a string of one or two characters
ZFill2(s) == IF Len(s) < 2 THEN "0" \o s ELSE s

AllDigits(s) == \A i \in 1..Len(s) : CharAt(s, i) \in Digits

\* DigitRunAt without the two word boundaries
DigitRunAt_unbounded(s, i, n) ==
    /\ i + n - 1 <= Len(s)
    /\ AllDigits(SubSeq(s, i, i + n - 1))

\* the positions at which r'\b(\d{n})\b' matches in s
DigitRunAt(s, i, n) ==
    /\ i + n - 1 <= Len(s)
    /\ AllDigits(SubSeq(s, i, i + n - 1))
    /\ (i = 1 \/ ~IsWordChar(CharAt(s, i - 1)))
    /\ (i + n - 1 = Len(s) \/ ~IsWordChar(CharAt(s, i + n)))

(***************************************************************************)
(* Text extractors and intent keywords (ai_agent.py)                       *)
(***************************************************************************)

\* re.search(r'\b(\d{7,8})\b', message): the leftmost match, its 7-digit
\* form padded with one leading zero
_extract_tracking_id(message) ==
    LET starts == {i \in 1..Len(message) :
                     DigitRunAt(message, i, 8) \/ DigitRunAt(message, i, 7)}
    IN  IF starts = {} THEN None
        ELSE LET i == CHOOSE a \in starts : \A b \in starts : a <= b
                 tracking_id == IF DigitRunAt(message, i, 8)
                                  THEN SubSeq(message, i, i + 7)
                                  ELSE SubSeq(message, i, i + 6)
             IN  IF Len(tracking_id) = 7 THEN "0" \o tracking_id ELSE tracking_id

_wants_to_track(message) ==
    ContainsAny(message, {"track", "tracking", "status", "where is", "locate", "find my"})

_wants_to_book(message) ==
    IF Contains(message, "ship") /\ ~Contains(message, "shipment") THEN TRUE
    ELSE ContainsAny(message, {"book", "schedule", "send", "new shipment", "create"})

_wants_to_reschedule(message) ==
    ContainsAny(message, {"reschedule", "delay", "postpone", "change date", "move"})

\* _wants_human_agent without the test for the star key
_wants_human_agent_words(message) ==
    ContainsAny(message, {"human", "agent", "person", "representative",
                          "operator", "transfer"})

_wants_human_agent(message) ==
    \/ ContainsAny(message, {"human", "agent", "person", "representative",
                             "operator", "transfer"})
    \/ Contains(message, "*")

_wants_to_cancel(message) ==
    ContainsAny(message, {"cancel", "delete", "remove", "stop", "abort", "terminate"})

_wants_to_update_address(message) ==
    ContainsAny(message, {"change address", "update address", "modify address",
                          "new address", "different address", "wrong address",
                          "pickup", "delivery location", "update my address",
                          "change my address", "modify my address",
                          "update my shipment", "modify my shipment",
                          "change my shipment"})

_wants_to_update_time(message) ==
    ContainsAny(message, {"change time", "update time", "different time", "new time",
                          "morning", "afternoon", "evening", "am", "pm",
                          "earlier", "later"})

\* the farewell test of _handle_intent_detection
_wants_farewell(message) ==
    ContainsAny(message, {"thank you", "thanks", "thats all", "that's all",
                          "goodbye", "bye", "done"})

RECURSIVE FormatDigits(_, _)
FormatDigits(tracking_id, i) ==
    IF i > Len(tracking_id) THEN ""
    ELSE (IF i > 1 THEN "-" ELSE "") \o CharAt(tracking_id, i)
         \o FormatDigits(tracking_id, i + 1)

\* "12345678" becomes "1-2-3-4-5-6-7-8"
_format_tracking_id_for_speech(tracking_id) == FormatDigits(tracking_id, 1)

(***************************************************************************)
(* The transcripts of the model                                            *)
(***************************************************************************)

\* what a caller says to open a topic
Requests ==
    {"cancel my shipment and track it", "cancel 12345678", "track 12345678",
     "track 12345600", "track 7654321", "postpone 12345678", "delay it",
     "postpone 12345603",
     "change address 12345678", "where is my pickup", "send to new address",
     "schedule a delay", "move it later", "later thanks", "repeat tracking",
     "change time 12345678", "bye", "cancel 12345678 *"}

\* what a caller says when asked for a slot value
Answers ==
    {"John", "mary", "mr john smith", "", "a", "no", "yes", "oak avenue", "pickup",
     "delivery", "december 15th", "today", "12345678", "agent"}

\* the transcripts speech_to_text can return
Utterances == Requests \cup Answers

\* what a caller says to the menu of intent detection: requests to
\* reschedule, with and without a tracking id, and utterances about a shipment
IntentSays ==
    {"reschedule my package", "Reschedule 12345678", "please reschedule it",
     "postpone my package", "move 12345678", "my shipment", "shipment",
     "ship a box", "hello there", "delay 12345603"}

\* what a caller says in the address flow: an address kind, both kinds, none,
\* and new addresses of several lengths
AddressSays ==
    {"from pickup to delivery", "pick up or delivery", "pickup", "delivery",
     "the pickup address", "destination", "oak avenue", "12 main road",
     "hello", "no", "a", "", " "}

\* the answers tried for the slots whose text is kept (the three booking slots
\* and the new address)
SlotAnswers == {"John", "", "a", "no", "oak avenue", "december 15th", "agent"}

\* the values datetime.now().strftime("%Y-%m-%d") can take during a call
CurrentDates == {"2026-11-01"}

\* the identifiers random.randint can draw for a booking
BookIds == {"10000001", "12345678"}

\* the user_message values process_message hands to the handlers
Messages == {Strip(Lower(u)) : u \in Utterances} \cup {""}

(***************************************************************************)
(* Dates: _parse_date (ai_agent.py) and _is_valid_date_format              *)
(* (logistics_tools.py).  A date is a string "YYYY-MM-DD".                 *)
(***************************************************************************)

DigitVal == [c \in Digits |->
               CASE c = "0" -> 0 [] c = "1" -> 1 [] c = "2" -> 2 [] c = "3" -> 3
                 [] c = "4" -> 4 [] c = "5" -> 5 [] c = "6" -> 6 [] c = "7" -> 7
                 [] c = "8" -> 8 [] c = "9" -> 9]

RECURSIVE ToInt(_)
\* int(s) of a string of digits
ToInt(s) ==
    IF Len(s) = 0 THEN 0
    ELSE 10 * ToInt(SubSeq(s, 1, Len(s) - 1)) + DigitVal[CharAt(s, Len(s))]

MonthNames == <<"january", "february", "march", "april", "may", "june", "july",
                "august", "september", "october", "november", "december">>

\* month_map of _parse_date
MonthNum(m) == ZFill2(CASE m = 1 -> "1" [] m = 2 -> "2" [] m = 3 -> "3" [] m = 4 -> "4"
                        [] m = 5 -> "5" [] m = 6 -> "6" [] m = 7 -> "7" [] m = 8 -> "8"
                        [] m = 9 -> "9" [] m = 10 -> "10" [] m = 11 -> "11"
                        [] m = 12 -> "12")

IsLeap(y) == (y % 4 = 0 /\ y % 100 # 0) \/ y % 400 = 0

DaysIn(y, m) ==
    IF m = 2 THEN (IF IsLeap(y) THEN 29 ELSE 28)
    ELSE IF m \in {4, 6, 9, 11} THEN 30 ELSE 31

\* a calendar date exists for the three numbers
ValidYMD(y, m, d) == y >= 1 /\ m \in 1..12 /\ d >= 1 /\ d <= DaysIn(y, m)

\* s has the shape dddd-dd-dd
IsoShape(s) ==
    /\ Len(s) = 10
    /\ AllDigits(SubSeq(s, 1, 4)) /\ CharAt(s, 5) = "-"
    /\ AllDigits(SubSeq(s, 6, 7)) /\ CharAt(s, 8) = "-"
    /\ AllDigits(SubSeq(s, 9, 10))

\* datetime.strptime(date_str, "%Y-%m-%d") returns a date
Strptime(date_str) ==
    /\ date_str # None
    /\ IsoShape(date_str)
    /\ ValidYMD(ToInt(SubSeq(date_str, 1, 4)), ToInt(SubSeq(date_str, 6, 7)),
                ToInt(SubSeq(date_str, 9, 10)))

\* datetime.strptime(date_str, "%Y-%m-%d") succeeds; the "%m/%d/%Y" retry
\* accepts only strings with slashes, which _parse_date never returns
_is_valid_date_format(date_str) ==
    \/ /\ date_str # None
       /\ IsoShape(date_str)
       /\ ValidYMD(ToInt(SubSeq(date_str, 1, 4)), ToInt(SubSeq(date_str, 6, 7)),
                   ToInt(SubSeq(date_str, 9, 10)))
    \/ /\ date_str # None
       /\ Len(date_str) = 10 /\ CharAt(date_str, 3) = "/" /\ CharAt(date_str, 6) = "/"
       /\ AllDigits(SubSeq(date_str, 1, 2)) /\ AllDigits(SubSeq(date_str, 4, 5))
       /\ AllDigits(SubSeq(date_str, 7, 10))
       /\ ValidYMD(ToInt(SubSeq(date_str, 7, 10)), ToInt(SubSeq(date_str, 1, 2)),
                   ToInt(SubSeq(date_str, 4, 5)))

\* position i starts the suffix of an ordinal: r'\b(\d+)(st|nd|rd|th)\b'
IsOrdinalSuffixAt(s, i) ==
    /\ i > 1 /\ i + 1 <= Len(s)
    /\ SubSeq(s, i, i + 1) \in {"st", "nd", "rd", "th"}
    /\ CharAt(s, i - 1) \in Digits
    /\ (i + 1 = Len(s) \/ ~IsWordChar(CharAt(s, i + 2)))
    /\ LET nondigit == {k \in 1..(i - 1) : CharAt(s, k) \notin Digits}
       IN  \/ nondigit = {}
           \/ ~IsWordChar(CharAt(s, CHOOSE k \in nondigit : \A j \in nondigit : k >= j))

RECURSIVE StripOrdinalsFrom(_, _)
StripOrdinalsFrom(s, i) ==
    IF i > Len(s) THEN ""
    ELSE IF IsOrdinalSuffixAt(s, i) THEN StripOrdinalsFrom(s, i + 2)
    ELSE CharAt(s, i) \o StripOrdinalsFrom(s, i + 1)

\* re.sub(r'\b(\d+)(st|nd|rd|th)\b', r'\1', s)
StripOrdinals(s) == StripOrdinalsFrom(s, 1)

\* r'\bword\b' matches at position i of s
WordAt(s, i, word) ==
    /\ i + Len(word) - 1 <= Len(s)
    /\ SubSeq(s, i, i + Len(word) - 1) = word
    /\ (i = 1 \/ ~IsWordChar(CharAt(s, i - 1)))
    /\ (i + Len(word) - 1 = Len(s) \/ ~IsWordChar(CharAt(s, i + Len(word))))

RECURSIVE SubWordFrom(_, _, _, _)
SubWordFrom(s, i, word, repl) ==
    IF i > Len(s) THEN ""
    ELSE IF WordAt(s, i, word) THEN repl \o SubWordFrom(s, i + Len(word), word, repl)
    ELSE CharAt(s, i) \o SubWordFrom(s, i + 1, word, repl)

\* re.sub(r'\bword\b', repl, s)
SubWord(s, word, repl) == SubWordFrom(s, 1, word, repl)

\* the first run of one or two digits in s: re.search(r'(\d{1,2})', s)
FirstDay(s) ==
    LET at == {i \in 1..Len(s) : CharAt(s, i) \in Digits}
    IN  IF at = {} THEN None
        ELSE LET i == CHOOSE a \in at : \A b \in at : a <= b
             IN  IF i < Len(s) /\ CharAt(s, i + 1) \in Digits
                   THEN SubSeq(s, i, i + 1) ELSE CharAt(s, i)

\* the months, in month_map order, whose name occurs in s
MonthsIn(s) == {m \in 1..12 : Contains(s, MonthNames[m])}

\* the positions of s that hold a date written dddd-dd-dd as a token of its own
IsoAt(s) ==
    {i \in 1..(Len(s) - 9) :
        /\ IsoShape(SubSeq(s, i, i + 9))
        /\ (i = 1 \/ IsSpace(CharAt(s, i - 1)))
        /\ (i + 9 = Len(s) \/ IsSpace(CharAt(s, i + 10)))}

\* the digit runs of s, as (first, last) positions
NumberRuns(s) ==
    {r \in (1..Len(s)) \X (1..Len(s)) :
        /\ r[1] <= r[2]
        /\ AllDigits(SubSeq(s, r[1], r[2]))
        /\ (r[1] = 1 \/ CharAt(s, r[1] - 1) \notin Digits)
        /\ (r[2] = Len(s) \/ CharAt(s, r[2] + 1) \notin Digits)}

\* dateutil.parser.parse(s, fuzzy=True, default=datetime(2025, 12, 1)) on the
\* transcripts of the corpus: a date written dddd-dd-dd is read as year, month
\* and day; a month name with at most one number of one or two digits is read
\* as that month and day, the year (and a missing day) taken from the default;
\* a string with neither, or one that names no calendar date, raises
dateutil_parse(s) ==
    LET iso    == IsoAt(s)
        months == MonthsIn(s)
        runs   == NumberRuns(s)
    IN  IF iso # {} THEN
            LET i == CHOOSE a \in iso : \A b \in iso : a <= b
                d == SubSeq(s, i, i + 9)
            IN  IF Cardinality(runs) = 3 /\ months = {}
                   /\ ValidYMD(ToInt(SubSeq(d, 1, 4)), ToInt(SubSeq(d, 6, 7)),
                               ToInt(SubSeq(d, 9, 10)))
                  THEN d ELSE None
        ELSE IF Cardinality(months) = 1 /\ Cardinality(runs) <= 1 THEN
            LET m   == CHOOSE a \in months : TRUE
                day == IF runs = {} THEN "1"
                       ELSE LET r == CHOOSE a \in runs : TRUE IN SubSeq(s, r[1], r[2])
            IN  IF Len(day) <= 2 /\ ValidYMD(2025, m, ToInt(day))
                  THEN "2025-" \o MonthNum(m) \o "-" \o ZFill2(day) ELSE None
        ELSE None

\* the except branch of _parse_date: the regex fallbacks
_parse_date_fallback(date_string) ==
    LET slashed == {i \in 1..Len(date_string) : \E a \in 1..2, b \in 1..2 :
                      /\ i + a + b + 5 <= Len(date_string)
                      /\ AllDigits(SubSeq(date_string, i, i + a - 1))
                      /\ CharAt(date_string, i + a) \in {"/", "-"}
                      /\ AllDigits(SubSeq(date_string, i + a + 1, i + a + b))
                      /\ CharAt(date_string, i + a + b + 1) \in {"/", "-"}
                      /\ AllDigits(SubSeq(date_string, i + a + b + 2, i + a + b + 5))}
        months  == MonthsIn(date_string)
    IN  IF slashed # {} THEN
            LET i == CHOOSE x \in slashed : \A y \in slashed : x <= y
                a == IF CharAt(date_string, i + 1) \in Digits THEN 2 ELSE 1
                b == IF CharAt(date_string, i + a + 2) \in Digits THEN 2 ELSE 1
            IN  SubSeq(date_string, i + a + b + 2, i + a + b + 5) \o "-"
                \o ZFill2(SubSeq(date_string, i, i + a - 1)) \o "-"
                \o ZFill2(SubSeq(date_string, i + a + 1, i + a + b))
        ELSE IF months # {} /\ FirstDay(date_string) # None THEN
            LET m == CHOOSE x \in months : \A y \in months : x <= y
            IN  "2025-" \o MonthNum(m) \o "-" \o ZFill2(FirstDay(date_string))
        ELSE None

\* _parse_date; now is datetime.now().strftime("%Y-%m-%d").  Both relative
\* terms are replaced by the current date (lines 742 and 743)
_parse_date(date_string, now) ==
    LET s0 == Strip(Lower(date_string))
        s1 == StripOrdinals(s0)
        s2 == SubWord(s1, "today", now)
        s3 == SubWord(s2, "tomorrow", now)
        parsed == dateutil_parse(s3)
    IN  IF parsed # None THEN parsed ELSE _parse_date_fallback(s3)

(***************************************************************************)
(* The shipment store (database.py).  st maps the tracking ids of the rows *)
(* of table shipments to their columns.  Every operation returns the store *)
(* it leaves behind and exc: "" on return, the exception class on raise.   *)
(* While the pool cannot reach the database, st carries the key Outage and *)
(* every operation raises where it acquires a connection.                  *)
(***************************************************************************)

NoData == [x \in {} |-> ""]

\* the key of a store whose pool cannot reach the database
Outage == "(unreachable)"

\* self.pool.acquire() raises
Unreachable(st) == Outage \in DOMAIN st

\* the store as a turn sees it while the database cannot be reached
Disconnected(st) == st @@ (Outage :> [status |-> "unreachable"])

\* the rows of table shipments
Rows(st) == [tracking_id \in DOMAIN st \ {Outage} |-> st[tracking_id]]

\* what an operation raises when it cannot acquire a connection
ConnectionLost(st) ==
    [exc |-> "ConnectionError", message |-> "connection refused", store |-> st,
     data |-> NoData]

Row(st, tracking_id) ==
    [tracking_id |-> tracking_id] @@ st[tracking_id]

\* Database.get_shipment: the row, if any
db_get_shipment(st, tracking_id) ==
    IF Unreachable(st)
      THEN [exc |-> "ConnectionError", found |-> FALSE, row |-> NoData]
    ELSE IF tracking_id \in DOMAIN st
      THEN [exc |-> "", found |-> TRUE, row |-> Row(st, tracking_id)]
      ELSE [exc |-> "", found |-> FALSE, row |-> NoData]

\* Database.book_shipment with an INSERT that replaces the row of a tracking
\* id that exists
db_book_shipment_replacing(st, tracking_id, customer_name, pickup_address, delivery_address, delivery_date) ==
    IF Unreachable(st) THEN ConnectionLost(st)
    ELSE [exc |-> "", message |-> "",
          store |-> (tracking_id :>
                        [customer_name |-> customer_name,
                         pickup_address |-> pickup_address,
                         delivery_address |-> delivery_address,
                         delivery_date |-> delivery_date,
                         status |-> "booked"]) @@ st,
          data |-> [tracking_id |-> tracking_id,
                    customer_name |-> customer_name,
                    pickup_address |-> pickup_address,
                    delivery_address |-> delivery_address,
                    delivery_date |-> delivery_date,
                    status |-> "booked",
                    confirmation_message |->
                      "Your shipment has been booked successfully with tracking ID "
                      \o tracking_id]]

\* Database.book_shipment; tracking_id is the value drawn by random.randint.
\* INSERT raises a unique violation when the primary key exists
db_book_shipment(st, tracking_id, customer_name, pickup_address, delivery_address, delivery_date) ==
    IF Unreachable(st) THEN ConnectionLost(st)
    ELSE IF tracking_id \in DOMAIN st
      THEN [exc |-> "UniqueViolationError", message |-> "", store |-> st, data |-> NoData]
      ELSE [exc |-> "", message |-> "",
            store |-> st @@ (tracking_id :>
                        [customer_name |-> customer_name,
                         pickup_address |-> pickup_address,
                         delivery_address |-> delivery_address,
                         delivery_date |-> delivery_date,
                         status |-> "booked"]),
            data |-> [tracking_id |-> tracking_id,
                      customer_name |-> customer_name,
                      pickup_address |-> pickup_address,
                      delivery_address |-> delivery_address,
                      delivery_date |-> delivery_date,
                      status |-> "booked",
                      confirmation_message |->
                        "Your shipment has been booked successfully with tracking ID "
                        \o tracking_id]]

\* Database.update_shipment
db_update_shipment(st, tracking_id, new_date) ==
    IF ~Strptime(new_date)
      THEN [exc |-> IF new_date = None THEN "TypeError" ELSE "ValueError",
            message |-> "time data '" \o new_date \o "' does not match format '%Y-%m-%d'",
            store |-> st, data |-> NoData]
    ELSE IF Unreachable(st) THEN ConnectionLost(st)
    ELSE IF tracking_id \notin DOMAIN st
      THEN [exc |-> "ValueError",
            message |-> "Shipment with tracking ID " \o tracking_id \o " not found",
            store |-> st, data |-> NoData]
      ELSE [exc |-> "", message |-> "",
            store |-> [st EXCEPT ![tracking_id].delivery_date = new_date,
                                 ![tracking_id].status = "rescheduled"],
            data |-> [tracking_id |-> tracking_id,
                      customer_name |-> st[tracking_id].customer_name,
                      new_delivery_date |-> new_date,
                      status |-> "rescheduled",
                      confirmation_message |->
                        "Your shipment " \o tracking_id
                        \o " has been rescheduled for delivery on " \o new_date]]

\* Database.cancel_shipment
db_cancel_shipment(st, tracking_id) ==
    IF Unreachable(st) THEN ConnectionLost(st)
    ELSE IF tracking_id \notin DOMAIN st
      THEN [exc |-> "ValueError",
            message |-> "Shipment with tracking ID " \o tracking_id \o " not found",
            store |-> st, data |-> NoData]
      ELSE IF st[tracking_id].status = "cancelled"
      THEN [exc |-> "ValueError",
            message |-> "Shipment " \o tracking_id \o " is already cancelled",
            store |-> st, data |-> NoData]
      ELSE [exc |-> "", message |-> "",
            store |-> [st EXCEPT ![tracking_id].status = "cancelled"],
            data |-> [tracking_id |-> tracking_id,
                      customer_name |-> st[tracking_id].customer_name,
                      previous_status |-> st[tracking_id].status,
                      new_status |-> "cancelled",
                      confirmation_message |->
                        "Your shipment " \o tracking_id
                        \o " has been successfully cancelled"]]

\* Database.update_shipment_address with an UPDATE that sets both addresses
db_update_shipment_address_both(st, tracking_id, address_type, new_address) ==
    IF address_type \notin {"pickup", "delivery"} \/ Unreachable(st)
         \/ tracking_id \notin DOMAIN st
      THEN [exc |-> "ValueError", message |-> "", store |-> st, data |-> NoData]
      ELSE [exc |-> "", message |-> "",
            store |-> [st EXCEPT ![tracking_id].pickup_address = new_address,
                                 ![tracking_id].delivery_address = new_address,
                                 ![tracking_id].status = "modified"],
            data |-> NoData]

\* Database.update_shipment_address
db_update_shipment_address(st, tracking_id, address_type, new_address) ==
    IF address_type \notin {"pickup", "delivery"}
      THEN [exc |-> "ValueError",
            message |-> "Address type must be 'pickup' or 'delivery'",
            store |-> st, data |-> NoData]
      ELSE IF Unreachable(st) THEN ConnectionLost(st)
      ELSE IF tracking_id \notin DOMAIN st
      THEN [exc |-> "ValueError",
            message |-> "Shipment with tracking ID " \o tracking_id \o " not found",
            store |-> st, data |-> NoData]
      ELSE [exc |-> "", message |-> "",
            store |-> IF address_type = "pickup"
                        THEN [st EXCEPT ![tracking_id].pickup_address = new_address,
                                        ![tracking_id].status = "modified"]
                        ELSE [st EXCEPT ![tracking_id].delivery_address = new_address,
                                        ![tracking_id].status = "modified"],
            data |-> [tracking_id |-> tracking_id,
                      customer_name |-> st[tracking_id].customer_name,
                      address_type |-> address_type,
                      old_address |-> IF address_type = "pickup"
                                        THEN st[tracking_id].pickup_address
                                        ELSE st[tracking_id].delivery_address,
                      new_address |-> new_address,
                      confirmation_message |->
                        "Your " \o address_type \o " address for shipment "
                        \o tracking_id \o " has been updated to " \o new_address]]

\* Database.update_delivery_time; new_date is None to keep the existing date
db_update_delivery_time(st, tracking_id, new_time, new_date) ==
    IF Unreachable(st) THEN ConnectionLost(st)
    ELSE IF tracking_id \notin DOMAIN st
      THEN [exc |-> "ValueError",
            message |-> "Shipment with tracking ID " \o tracking_id \o " not found",
            store |-> st, data |-> NoData]
      ELSE IF new_date # None /\ new_date # "" /\ ~Strptime(new_date)
      THEN [exc |-> "ValueError",
            message |-> "time data '" \o new_date \o "' does not match format '%Y-%m-%d'",
            store |-> st, data |-> NoData]
      ELSE LET date == IF new_date # None /\ new_date # ""
                         THEN new_date ELSE st[tracking_id].delivery_date
           IN  [exc |-> "", message |-> "",
                store |-> [st EXCEPT ![tracking_id].delivery_date = date,
                                     ![tracking_id].status = "rescheduled"],
                data |-> [tracking_id |-> tracking_id,
                          customer_name |-> st[tracking_id].customer_name,
                          old_date |-> st[tracking_id].delivery_date,
                          new_date |-> date,
                          new_time |-> new_time,
                          confirmation_message |->
                            "Your delivery for shipment " \o tracking_id
                            \o " has been rescheduled to " \o date \o " at " \o new_time]]

(***************************************************************************)
(* The logistics tools (logistics_tools.py).  A tool returns its result    *)
(* dictionary, the store it leaves behind and calls: the store operations  *)
(* it invoked, in order.                                                   *)
(***************************************************************************)

Call(op, tracking_id) == [op |-> op, tracking_id |-> tracking_id]

ToolResult(success, error, message, data, st, calls) ==
    [success |-> success, error |-> error, message |-> message, data |-> data,
     store |-> st, calls |-> calls]

\* the suffixes in descending order
Variants_descending == <<"09", "08", "07", "06", "05", "04", "03", "02", "01">>

\* the suffixes tried by get_shipment, in the order of its loop
Variants == <<"01", "02", "03", "04", "05", "06", "07", "08", "09">>

\* delivery_parts[-2].strip() if the address has a comma, else "destination"
CityOf(delivery_address) ==
    LET commas == {i \in 1..Len(delivery_address) : CharAt(delivery_address, i) = ","}
    IN  IF commas = {} THEN "destination"
        ELSE LET lastc == CHOOSE i \in commas : \A j \in commas : i >= j
                 before == commas \ {lastc}
                 prev == IF before = {} THEN 0
                         ELSE CHOOSE i \in before : \A j \in before : i >= j
             IN  Strip(SubSeq(delivery_address, prev + 1, lastc - 1))

\* LogisticsTools.get_shipment.  hit is the index of the first variant found
\* (0 for none), retry whether the loop over the variants runs
tools_get_shipment(st, tracking_id0) ==
    LET Found(found_id, shipment, calls) ==
            ToolResult(TRUE, "",
              "Found shipment " \o found_id \o " for " \o shipment.customer_name,
              [tracking_id |-> shipment.tracking_id,
               customer_name |-> shipment.customer_name,
               status |-> shipment.status,
               delivery_date |-> shipment.delivery_date,
               delivery_address |-> shipment.delivery_address,
               pickup_address |-> shipment.pickup_address,
               city |-> CityOf(shipment.delivery_address)],
              st, calls)
        Answer(tracking_id, found_id, calls) ==
            IF found_id # None
              THEN Found(found_id, Row(st, found_id), calls)
              ELSE ToolResult(FALSE, "shipment_not_found",
                     "Sorry, I couldn't find a shipment with tracking ID " \o tracking_id
                     \o ". Please double-check the tracking number.",
                     NoData, st, calls)
        Calls(tracking_id, base_id, tried) ==
            <<Call("get_shipment", tracking_id)>>
            \o [k \in 1..tried |-> Call("get_shipment", base_id \o Variants[k])]
        Tried(tracking_id, base_id, retry, hit) ==
            Answer(tracking_id,
                   IF tracking_id \in DOMAIN st THEN tracking_id
                   ELSE IF hit # 0 THEN base_id \o Variants[hit] ELSE None,
                   Calls(tracking_id, base_id,
                         IF ~retry THEN 0 ELSE IF hit = 0 THEN Len(Variants) ELSE hit))
        First(hits) == IF hits = {} THEN 0 ELSE CHOOSE k \in hits : \A j \in hits : k <= j
        Loop(tracking_id, base_id, retry) ==
            Tried(tracking_id, base_id, retry,
                  First(IF retry
                          THEN {k \in 1..Len(Variants) :
                                  (base_id \o Variants[k]) \in DOMAIN st}
                          ELSE {}))
        Lookup(tracking_id) ==
            IF Unreachable(st)
              THEN ToolResult(FALSE, "system_error",
                     "I'm having trouble accessing shipment information right now. Please try again or speak with a human agent.",
                     NoData, st, <<Call("get_shipment", tracking_id)>>)
              ELSE Loop(tracking_id, SubSeq(tracking_id, 1, Len(tracking_id) - 2),
                        tracking_id \notin DOMAIN st /\ EndsWith(tracking_id, "00")
                        /\ Len(tracking_id) = 8)
    IN  Lookup(Upper(Strip(tracking_id0)))

\* LogisticsTools.update_shipment
tools_update_shipment(st, tracking_id0, new_date) ==
    LET Answer(r, calls) ==
            IF r.exc = ""
              THEN ToolResult(TRUE, "", r.data.confirmation_message,
                     [tracking_id |-> r.data.tracking_id,
                      customer_name |-> r.data.customer_name,
                      new_delivery_date |-> r.data.new_delivery_date,
                      status |-> r.data.status],
                     r.store, calls)
            ELSE IF r.exc = "ValueError"
              THEN ToolResult(FALSE, "shipment_not_found", r.message, NoData, r.store,
                     calls)
              ELSE ToolResult(FALSE, "system_error",
                     "I'm having trouble updating the shipment right now. Please try again or speak with a human agent.",
                     NoData, r.store, calls)
        Update_(tracking_id) ==
            Answer(db_update_shipment(st, tracking_id, new_date),
                   <<Call("update_shipment", tracking_id)>>)
    IN  IF ~_is_valid_date_format(new_date)
          THEN ToolResult(FALSE, "invalid_date",
                 "Please provide the date in a valid format, such as December 15th or 2024-12-15.",
                 NoData, st, <<>>)
          ELSE Update_(Upper(Strip(tracking_id0)))

\* LogisticsTools.book_shipment; new_id is the identifier the store draws
tools_book_shipment(st, new_id, customer_name, pickup_address, delivery_address, delivery_date) ==
    LET Answer(r) ==
            IF r.exc = ""
              THEN ToolResult(TRUE, "", r.data.confirmation_message,
                     [tracking_id |-> r.data.tracking_id,
                      customer_name |-> r.data.customer_name,
                      pickup_address |-> r.data.pickup_address,
                      delivery_address |-> r.data.delivery_address,
                      delivery_date |-> r.data.delivery_date,
                      status |-> r.data.status],
                     r.store, <<Call("book_shipment", new_id)>>)
              ELSE ToolResult(FALSE, "system_error",
                     "I'm having trouble booking the shipment right now. Please try again or speak with a human agent.",
                     NoData, r.store, <<Call("book_shipment", new_id)>>)
    IN  IF customer_name = "" \/ pickup_address = "" \/ delivery_address = ""
           \/ delivery_date = "" \/ delivery_date = None
          THEN ToolResult(FALSE, "missing_information",
                 "I need all the information to book your shipment: customer name, pickup address, delivery address, and delivery date.",
                 NoData, st, <<>>)
        ELSE IF ~_is_valid_date_format(delivery_date)
          THEN ToolResult(FALSE, "invalid_date",
                 "Please provide the delivery date in a valid format.", NoData, st, <<>>)
          ELSE Answer(db_book_shipment(st, new_id, Strip(customer_name),
                                       Strip(pickup_address), Strip(delivery_address),
                                       delivery_date))

\* the names compared for equality
NamesMatch_exact(provided_name, stored_name) == provided_name = stored_name

\* provided_name in stored_name or stored_name in provided_name
NamesMatch(provided_name, stored_name) ==
    Contains(stored_name, provided_name) \/ Contains(provided_name, stored_name)

\* LogisticsTools.verify_customer_identity; the result carries verified
tools_verify_customer_identity(st, customer_name, tracking_id0) ==
    LET Answer(tracking_id, r, calls) ==
            IF r.exc # ""
              THEN ToolResult(FALSE, "system_error",
                     "I'm having trouble verifying your identity right now.",
                     NoData, st, calls)
                   @@ [verified |-> FALSE]
            ELSE IF ~r.found
              THEN ToolResult(FALSE, "shipment_not_found",
                     "I couldn't find shipment " \o tracking_id, NoData, st, calls)
                   @@ [verified |-> FALSE]
            ELSE IF NamesMatch(Strip(Lower(customer_name)), Lower(r.row.customer_name))
              THEN ToolResult(TRUE, "", "Identity verified for " \o r.row.customer_name,
                     NoData, st, calls)
                   @@ [verified |-> TRUE]
              ELSE ToolResult(TRUE, "",
                     "The name doesn't match our records. For security, I'll need to transfer you to a human agent.",
                     NoData, st, calls)
                   @@ [verified |-> FALSE]
        Verify(tracking_id) ==
            Answer(tracking_id, db_get_shipment(st, tracking_id),
                   <<Call("get_shipment", tracking_id)>>)
    IN  Verify(Upper(Strip(tracking_id0)))

\* LogisticsTools.cancel_shipment; tracking_id None raises on .strip(), which
\* the tool reports as a system error
tools_cancel_shipment(st, tracking_id0) ==
    LET Answer(r, calls) ==
            IF r.exc = ""
              THEN ToolResult(TRUE, "", r.data.confirmation_message,
                     [tracking_id |-> r.data.tracking_id,
                      customer_name |-> r.data.customer_name,
                      previous_status |-> r.data.previous_status,
                      new_status |-> r.data.new_status],
                     r.store, calls)
            ELSE IF r.exc = "ValueError"
              THEN ToolResult(FALSE, "shipment_error", r.message, NoData, r.store, calls)
              ELSE ToolResult(FALSE, "system_error",
                     "I'm having trouble cancelling the shipment right now. Please try again or speak with a human agent.",
                     NoData, r.store, calls)
        Cancel(tracking_id) ==
            Answer(db_cancel_shipment(st, tracking_id),
                   <<Call("cancel_shipment", tracking_id)>>)
    IN  IF tracking_id0 = None
          THEN ToolResult(FALSE, "system_error",
                 "I'm having trouble cancelling the shipment right now. Please try again or speak with a human agent.",
                 NoData, st, <<>>)
          ELSE Cancel(Upper(Strip(tracking_id0)))

\* LogisticsTools.update_address; a None tracking id or address type raises on
\* .strip() / .lower(), which the tool reports as a system error
tools_update_address(st, tracking_id0, address_type0, new_address) ==
    LET Answer(r, calls) ==
            IF r.exc = ""
              THEN ToolResult(TRUE, "", r.data.confirmation_message,
                     [tracking_id |-> r.data.tracking_id,
                      customer_name |-> r.data.customer_name,
                      address_type |-> r.data.address_type,
                      old_address |-> r.data.old_address,
                      new_address |-> r.data.new_address],
                     r.store, calls)
            ELSE IF r.exc = "ValueError"
              THEN ToolResult(FALSE, "shipment_error", r.message, NoData, r.store, calls)
              ELSE ToolResult(FALSE, "system_error",
                     "I'm having trouble updating the address right now. Please try again or speak with a human agent.",
                     NoData, r.store, calls)
        Update_(tracking_id, address_type) ==
            IF address_type \notin {"pickup", "delivery"}
              THEN ToolResult(FALSE, "invalid_address_type",
                     "Please specify whether you want to update the pickup or delivery address.",
                     NoData, st, <<>>)
              ELSE Answer(db_update_shipment_address(st, tracking_id, address_type,
                                                     new_address),
                          <<Call("update_shipment_address", tracking_id)>>)
    IN  IF tracking_id0 = None \/ address_type0 = None
          THEN ToolResult(FALSE, "system_error",
                 "I'm having trouble updating the address right now. Please try again or speak with a human agent.",
                 NoData, st, <<>>)
          ELSE Update_(Upper(Strip(tracking_id0)), Strip(Lower(address_type0)))

\* LogisticsTools.update_delivery_time
tools_update_delivery_time(st, tracking_id0, new_time, new_date) ==
    LET Answer(r, calls) ==
            IF r.exc = ""
              THEN ToolResult(TRUE, "", r.data.confirmation_message,
                     [tracking_id |-> r.data.tracking_id,
                      customer_name |-> r.data.customer_name,
                      old_date |-> r.data.old_date,
                      new_date |-> r.data.new_date,
                      new_time |-> r.data.new_time],
                     r.store, calls)
            ELSE IF r.exc = "ValueError"
              THEN ToolResult(FALSE, "shipment_error", r.message, NoData, r.store, calls)
              ELSE ToolResult(FALSE, "system_error",
                     "I'm having trouble updating the delivery time right now. Please try again or speak with a human agent.",
                     NoData, r.store, calls)
        Update_(tracking_id) ==
            Answer(db_update_delivery_time(st, tracking_id, new_time, new_date),
                   <<Call("update_delivery_time", tracking_id)>>)
    IN  IF tracking_id0 = None
          THEN ToolResult(FALSE, "system_error",
                 "I'm having trouble updating the delivery time right now. Please try again or speak with a human agent.",
                 NoData, st, <<>>)
        ELSE IF new_date # None /\ new_date # "" /\ ~_is_valid_date_format(new_date)
          THEN ToolResult(FALSE, "invalid_date",
                 "Please provide the date in a valid format, such as December 15th or 2024-12-15.",
                 NoData, st, <<>>)
          ELSE Update_(Upper(Strip(tracking_id0)))

(***************************************************************************)
(* The dialogue engine (ai_agent.py).  A context is a function from the    *)
(* keys it holds to their values.  A handler returns its Turn Result       *)
(* together with ctx_in, the caller's dictionary as the handler's in-place *)
(* assignments leave it, the store and the store calls it made.  outcome   *)
(* is "result", "none" when the handler falls off its end, or "raise";     *)
(* raised tells that the handler raised.                                   *)
(***************************************************************************)

EmptyContext == [k \in {} |-> ""]

\* context.get(key)
Get(context, key) == IF key \in DOMAIN context THEN context[key] ELSE None

\* context.get(key, default)
GetOr(context, key, default) == IF key \in DOMAIN context THEN context[key] ELSE default

\* context[key] = value, and {**context, key: value}
Put(context, key, value) ==
    [k \in DOMAIN context \cup {key} |-> IF k = key THEN value ELSE context[k]]

\* dict.update
Update(context, other) ==
    [k \in DOMAIN context \cup DOMAIN other |->
        IF k \in DOMAIN other THEN other[k] ELSE context[k]]

Reply(message, next_state, context, continue_conversation, ctx_in, st, calls) ==
    [outcome |-> "result", message |-> message, next_state |-> next_state,
     context |-> context, continue_conversation |-> continue_conversation,
     ctx_in |-> ctx_in, store |-> st, calls |-> calls, raised |-> FALSE]

\* the handler ends without a return statement
ReturnsNone(ctx_in, st, calls) ==
    [outcome |-> "none", message |-> "", next_state |-> None,
     context |-> EmptyContext, continue_conversation |-> FALSE,
     ctx_in |-> ctx_in, store |-> st, calls |-> calls, raised |-> FALSE]

\* the handler raises (a KeyError on a missing context slot)
Raises(ctx_in, st, calls) ==
    [outcome |-> "raise", message |-> "", next_state |-> None,
     context |-> EmptyContext, continue_conversation |-> FALSE,
     ctx_in |-> ctx_in, store |-> st, calls |-> calls, raised |-> TRUE]

\* Intent with the tracking test ahead of the cancellation test
Intent_track_first(user_message) ==
    IF Contains(Lower(user_message), "repeat") /\ Contains(Lower(user_message), "tracking")
      THEN "repeat"
    ELSE IF _wants_to_track(user_message) THEN "track"
    ELSE IF _wants_to_cancel(user_message) THEN "cancel"
    ELSE IF _wants_to_update_address(user_message) THEN "update_address"
    ELSE IF _wants_to_book(user_message) THEN "book"
    ELSE IF _wants_to_reschedule(user_message) THEN "reschedule"
    ELSE IF _wants_to_update_time(user_message) THEN "update_time"
    ELSE IF _wants_farewell(user_message) THEN "farewell"
    ELSE "unclear"

\* the branch of _handle_intent_detection taken for user_message, by the order
\* of its if / elif chain
Intent(user_message) ==
    IF Contains(Lower(user_message), "repeat") /\ Contains(Lower(user_message), "tracking")
      THEN "repeat"
    ELSE IF _wants_to_cancel(user_message) THEN "cancel"
    ELSE IF _wants_to_track(user_message) THEN "track"
    ELSE IF _wants_to_update_address(user_message) THEN "update_address"
    ELSE IF _wants_to_book(user_message) THEN "book"
    ELSE IF _wants_to_reschedule(user_message) THEN "reschedule"
    ELSE IF _wants_to_update_time(user_message) THEN "update_time"
    ELSE IF _wants_farewell(user_message) THEN "farewell"
    ELSE "unclear"

\* TooShort without the length test
TooShort_empty_only(user_message, n) == user_message = ""

\* not user_message or len(user_message.strip()) < n
TooShort(user_message, n) == user_message = "" \/ Len(Strip(user_message)) < n

\* the confirmation test of _handle_cancellation
Confirms(user_message) ==
    ContainsAny(Lower(user_message), {"yes", "confirm", "sure", "ok", "proceed"})

\* the address kind _handle_address_update reads from user_message, pickup
\* tested first
AddressTypeOf(user_message) ==
    IF ContainsAny(Lower(user_message), {"pickup", "pick up", "pick-up", "from"})
      THEN "pickup"
    ELSE IF ContainsAny(Lower(user_message), {"delivery", "deliver", "to", "destination"})
      THEN "delivery"
    ELSE None

\* what the keyword tests and extractors of ai_agent.py make of user_message
Hears(user_message) ==
    [human |-> _wants_human_agent(user_message),
     intent |-> Intent(user_message),
     tracking_id |-> _extract_tracking_id(user_message),
     date |-> [now \in CurrentDates |-> _parse_date(user_message, now)],
     title |-> Title(user_message),
     short2 |-> TooShort(user_message, 2),
     short3 |-> TooShort(user_message, 3),
     confirms |-> Confirms(user_message),
     address_type |-> AddressTypeOf(user_message)]

\* Hears over the messages of the model, computed once
Heard == [m \in Messages |-> Hears(m)]

Hear(user_message) ==
    IF user_message \in Messages THEN Heard[user_message] ELSE Hears(user_message)

\* user_message.lower().strip() over the transcripts of the model, computed once
Normalized == [u \in Utterances \cup IntentSays \cup AddressSays |-> Strip(Lower(u))]

\* _transfer_to_human asking the caller to go on
_transfer_to_human_continuing(ctx_in, st) ==
    Reply("I'll transfer you to one of our human agents who can better assist you. Please hold.",
          "transfer_human", EmptyContext, TRUE, ctx_in, st, <<>>)

\* _transfer_to_human
_transfer_to_human(ctx_in, st) ==
    Reply("I'll transfer you to one of our human agents who can better assist you. Please hold.",
          "transfer_human", EmptyContext, FALSE, ctx_in, st, <<>>)

RECURSIVE ReplaceUnderscores(_, _)
\* s.replace('_', ' ')
ReplaceUnderscores(s, i) ==
    IF i > Len(s) THEN ""
    ELSE (IF CharAt(s, i) = "_" THEN " " ELSE CharAt(s, i)) \o ReplaceUnderscores(s, i + 1)

\* _format_tracking_response
_format_tracking_response(shipment) ==
    "I found your shipment " \o shipment.tracking_id \o " for "
    \o shipment.customer_name \o ". "
    \o "The current status is " \o Title(ReplaceUnderscores(shipment.status, 1)) \o ". "
    \o "It's scheduled for delivery on " \o shipment.delivery_date \o " to "
    \o shipment.city \o "."

\* _handle_tracking
_handle_tracking(user_message, heard, context, st) ==
    LET tracking_id == IF Get(context, "tracking_id") \notin {None, ""}
                         THEN Get(context, "tracking_id")
                         ELSE heard.tracking_id
        result == tools_get_shipment(st, tracking_id)
    IN  IF tracking_id = None
          THEN Reply("I didn't catch your tracking ID clearly. Please speak each digit slowly and clearly. For example, if your ID is 19608609, say 'one nine six zero eight six zero nine'.",
                     "tracking", context, TRUE, context, st, <<>>)
        ELSE IF result.success
          THEN Reply(_format_tracking_response(result.data)
                     \o " Is there anything else I can help you with today?",
                     "intent_detection", [last_tracking_id |-> tracking_id], TRUE,
                     context, result.store, result.calls)
          ELSE Reply(result.message
                     \o " Would you like to try another tracking ID or is there something else I can help you with?",
                     "intent_detection", context, TRUE, context, result.store,
                     result.calls)

\* CancelImmediately with a failed cancel answered like the failure of the
\* confirmation step: the context kept and the call handed off
CancelImmediately_handoff(tracking_id, context, st) ==
    LET result == tools_cancel_shipment(st, tracking_id)
    IN  IF result.success
          THEN Reply(result.message \o " Is there anything else I can help you with?",
                     "intent_detection", EmptyContext, TRUE, context, result.store,
                     result.calls)
          ELSE Reply(result.message \o " Let me transfer you to a human agent.",
                     "transfer_human", context, FALSE, context, result.store,
                     result.calls)

\* CancelImmediately with a failed cancel tried a second time
CancelImmediately_retried(tracking_id, context, st) ==
    LET Again(result, again) ==
            Reply(again.message, "intent_detection", EmptyContext, TRUE, context,
                  again.store, result.calls \o again.calls)
        Once(result) ==
            IF result.success
              THEN Reply(result.message \o " Is there anything else I can help you with?",
                         "intent_detection", EmptyContext, TRUE, context, result.store,
                         result.calls)
              ELSE Again(result, tools_cancel_shipment(result.store, tracking_id))
    IN  Once(tools_cancel_shipment(st, tracking_id))

\* the cancellation performed as soon as a tracking id is heard
\* (_handle_intent_detection lines 119-135, _handle_cancellation lines 494-509)
CancelImmediately(tracking_id, context, st) ==
    LET result == tools_cancel_shipment(st, tracking_id)
    IN  IF result.success
          THEN Reply(result.message \o " Is there anything else I can help you with?",
                     "intent_detection", EmptyContext, TRUE, context, result.store,
                     result.calls)
          ELSE Reply(result.message, "intent_detection", EmptyContext, TRUE, context,
                     result.store, result.calls)

\* _handle_intent_detection
_handle_intent_detection(user_message, heard, context, st) ==
    LET intent == heard.intent
        tracking_id == heard.tracking_id
        last_booking == Get(context, "last_booking")
    IN  CASE intent = "repeat" ->
               IF "last_booking" \in DOMAIN context
                  /\ "tracking_id" \in DOMAIN context["last_booking"]
                 THEN Reply("Of course! Your tracking ID is: "
                            \o _format_tracking_id_for_speech(last_booking.tracking_id)
                            \o ". Please write this down. Is there anything else I can help you with?",
                            "intent_detection", context, TRUE, context, st, <<>>)
                 ELSE Reply("I don't have a recent tracking ID to repeat. Would you like to book a new shipment or track an existing one?",
                            "intent_detection", context, TRUE, context, st, <<>>)
          [] intent = "cancel" ->
               IF tracking_id # None
                 THEN CancelImmediately(tracking_id, context, st)
                 ELSE Reply("I can help you cancel your shipment. First, please provide your tracking ID.",
                            "cancellation",
                            Put(Put(context, "action", "cancel"), "step", "get_tracking_id"),
                            TRUE, context, st, <<>>)
          [] intent = "track" ->
               IF tracking_id # None
                 THEN _handle_tracking("", Hear(""), Put(context, "tracking_id", tracking_id), st)
                 ELSE Reply("I can help you track your shipment. Please provide your tracking ID.",
                            "tracking", context, TRUE, context, st, <<>>)
          [] intent = "update_address" ->
               IF tracking_id # None
                 THEN LET c == Put(Put(context, "tracking_id", tracking_id),
                                   "action", "update_address")
                      IN  Reply("I can help you update the address for shipment "
                                \o tracking_id
                                \o ". For security, I need to verify your identity. What's your name?",
                                "identity_verification", c, TRUE, c, st, <<>>)
                 ELSE Reply("I can help you update your shipment address. First, please provide your tracking ID.",
                            "address_update",
                            Put(Put(context, "action", "update_address"),
                                "step", "get_tracking_id"),
                            TRUE, context, st, <<>>)
          [] intent = "book" ->
               Reply("I'd be happy to help you book a new shipment. Let me get some information from you. First, what's your full name?",
                     "booking", Put(context, "booking_step", "customer_name"), TRUE,
                     context, st, <<>>)
          [] intent = "reschedule" ->
               IF tracking_id # None
                 THEN LET c == Put(Put(context, "tracking_id", tracking_id),
                                   "reschedule_step", "identity_verification")
                      IN  Reply("I can help you reschedule shipment " \o tracking_id
                                \o ". For security, I need to verify your identity. What's your name?",
                                "identity_verification", c, TRUE, c, st, <<>>)
                 ELSE Reply("I can help you reschedule your shipment. First, please provide your tracking ID.",
                            "rescheduling",
                            Put(context, "reschedule_step", "get_tracking_id"), TRUE,
                            context, st, <<>>)
          [] intent = "update_time" ->
               IF tracking_id # None
                 THEN LET c == Put(Put(context, "tracking_id", tracking_id),
                                   "action", "update_time")
                      IN  Reply("I can help you change the delivery time for shipment "
                                \o tracking_id
                                \o ". For security, I need to verify your identity. What's your name?",
                                "identity_verification", c, TRUE, c, st, <<>>)
                 ELSE Reply("I can help you change your delivery time. First, please provide your tracking ID.",
                            "time_update",
                            Put(Put(context, "action", "update_time"),
                                "step", "get_tracking_id"),
                            TRUE, context, st, <<>>)
          [] intent = "farewell" ->
               Reply("Thank you for calling Rocket Shipment! You can now hang up the call or if you want to speak to a human agent press star.",
                     "completed", EmptyContext, FALSE, context, st, <<>>)
          [] OTHER ->
               Reply("I can help with tracking shipments, booking new shipments, rescheduling deliveries, cancelling shipments, or updating addresses and delivery times. What would you like to do today?",
                     "intent_detection", context, TRUE, context, st, <<>>)

\* _handle_greeting
_handle_greeting(user_message, heard, context, st) ==
    _handle_intent_detection(user_message, heard, context, st)

\* the summary added to the context collected so far: {**context, key: data}
Summary_merged(context, key, data) == Put(context, key, data)

\* the context a completed booking or rescheduling returns: {key: data}, the
\* summary alone
Summary(context, key, data) == key :> data

\* _handle_booking; now is the current date, new_id the identifier the store
\* draws for a booking
_handle_booking(user_message, heard, context, st, now, new_id) ==
    LET booking_step == GetOr(context, "booking_step", "customer_name")
    IN  CASE booking_step = "customer_name" ->
               IF heard.short2
                 THEN Reply("Sorry, I didn't get your name. Can you please speak again?",
                            "booking", context, TRUE, context, st, <<>>)
                 ELSE LET c == Put(context, "customer_name", heard.title)
                      IN  Reply("Thank you, " \o c["customer_name"]
                                \o ". What's the pickup address?",
                                "booking", Put(c, "booking_step", "pickup_address"),
                                TRUE, c, st, <<>>)
          [] booking_step = "pickup_address" ->
               IF heard.short3
                 THEN Reply("Sorry, I didn't get the pickup address. Can you please speak again?",
                            "booking", context, TRUE, context, st, <<>>)
                 ELSE LET c == Put(context, "pickup_address", user_message)
                      IN  Reply("Got it. And what's the delivery address?",
                                "booking", Put(c, "booking_step", "delivery_address"),
                                TRUE, c, st, <<>>)
          [] booking_step = "delivery_address" ->
               IF heard.short3
                 THEN Reply("Sorry, I didn't get the delivery address. Can you please speak again?",
                            "booking", context, TRUE, context, st, <<>>)
                 ELSE LET c == Put(context, "delivery_address", user_message)
                      IN  Reply("Perfect. When would you like this delivered? Please provide a date.",
                                "booking", Put(c, "booking_step", "delivery_date"),
                                TRUE, c, st, <<>>)
          [] booking_step = "delivery_date" ->
               LET delivery_date == heard.date[now]
               IN  IF delivery_date = None
                     THEN Reply("Sorry, I didn't get the date. Can you please speak again?",
                                "booking", context, TRUE, context, st, <<>>)
                   ELSE IF {"customer_name", "pickup_address", "delivery_address"}
                           \ DOMAIN context # {}
                     THEN Raises(context, st, <<>>)
                   ELSE LET result == tools_book_shipment(st, new_id,
                                        context["customer_name"], context["pickup_address"],
                                        context["delivery_address"], delivery_date)
                        IN  IF result.success
                              THEN Reply("Great! Your shipment has been booked successfully. Your tracking ID is: "
                                         \o _format_tracking_id_for_speech(result.data.tracking_id)
                                         \o ". Please write this down. We will dispatch an agent to your pickup address tomorrow morning who will pickup the package. Expect him to come around 10 AM. Is there anything else I can help you with?",
                                         "intent_detection", Summary(context, "last_booking", result.data),
                                         TRUE, context, result.store, result.calls)
                              ELSE Reply(result.message
                                         \o " Would you like to try again or speak with a human agent?",
                                         "intent_detection", context, TRUE, context,
                                         result.store, result.calls)
          [] OTHER -> ReturnsNone(context, st, <<>>)

\* _handle_rescheduling
_handle_rescheduling(user_message, heard, context, st, now) ==
    LET reschedule_step == GetOr(context, "reschedule_step", "get_tracking_id")
        tracking_id == heard.tracking_id
        new_date == heard.date[now]
    IN  CASE reschedule_step = "get_tracking_id" ->
               IF tracking_id = None
                 THEN Reply("I didn't catch your tracking ID. Could you please repeat it?",
                            "rescheduling", context, TRUE, context, st, <<>>)
                 ELSE LET c == Put(context, "tracking_id", tracking_id)
                      IN  Reply("I'll help you reschedule shipment " \o tracking_id
                                \o ". For security, I need to verify your identity. What's your name?",
                                "identity_verification",
                                Put(c, "reschedule_step", "identity_verification"),
                                TRUE, c, st, <<>>)
          [] reschedule_step = "get_new_date" ->
               IF new_date = None
                 THEN Reply("Sorry, I didn't get the date. Can you please speak again?",
                            "rescheduling", context, TRUE, context, st, <<>>)
               ELSE IF "tracking_id" \notin DOMAIN context
                 THEN Raises(context, st, <<>>)
               ELSE LET result == tools_update_shipment(st, context["tracking_id"], new_date)
                    IN  IF result.success
                          THEN Reply(result.message
                                     \o ". Is there anything else I can help you with?",
                                     "intent_detection", Summary(context, "last_update", result.data),
                                     TRUE, context, result.store, result.calls)
                          ELSE Reply(result.message
                                     \o " Would you like to try again or speak with a human agent?",
                                     "intent_detection", context, TRUE, context,
                                     result.store, result.calls)
          [] OTHER -> ReturnsNone(context, st, <<>>)

\* VerifiedRoute without the branch for update_time
VerifiedRoute_no_time(action) ==
    CASE action = "cancel" ->
           [next_state |-> "cancellation", key |-> "step", step |-> "confirm_cancellation"]
      [] action = "update_address" ->
           [next_state |-> "address_update", key |-> "step", step |-> "select_address_type"]
      [] OTHER ->
           [next_state |-> "rescheduling", key |-> "reschedule_step", step |-> "get_new_date"]

\* the state and sub-step a verified caller is sent to, by context.get('action')
\* (_handle_identity_verification lines 447-477)
VerifiedRoute(action) ==
    CASE action = "cancel" ->
           [next_state |-> "cancellation", key |-> "step", step |-> "confirm_cancellation"]
      [] action = "update_address" ->
           [next_state |-> "address_update", key |-> "step", step |-> "select_address_type"]
      [] action = "update_time" ->
           [next_state |-> "time_update", key |-> "step", step |-> "get_new_time"]
      [] OTHER ->
           [next_state |-> "rescheduling", key |-> "reschedule_step", step |-> "get_new_date"]

\* the question put to a verified caller
VerifiedPrompt(action, tracking_id) ==
    CASE action = "cancel" ->
           "Thank you for the verification. Are you sure you want to cancel shipment "
           \o tracking_id \o "? This action cannot be undone."
      [] action = "update_address" ->
           "Thank you for the verification. Which address would you like to update for shipment "
           \o tracking_id \o "? The pickup address or delivery address?"
      [] action = "update_time" ->
           "Thank you for the verification. What new delivery time would you like for shipment "
           \o tracking_id \o "?"
      [] OTHER ->
           "Thank you for the verification. What's the new delivery date you'd like for shipment "
           \o tracking_id \o "?"

\* _handle_identity_verification letting a caller whose name does not match
\* go on to the next step
_handle_identity_verification_lax(user_message, heard, context, st) ==
    LET tracking_id == Get(context, "tracking_id")
        result == tools_verify_customer_identity(st, user_message, tracking_id)
        action == GetOr(context, "action", "reschedule")
        route == VerifiedRoute(action)
    IN  IF tracking_id \in {None, ""}
          THEN Reply("I seem to have lost your tracking information. Could you please provide your tracking ID again?",
                     "rescheduling", EmptyContext, TRUE, context, st, <<>>)
        ELSE IF ~result.success
          THEN Reply(result.message \o " Let me transfer you to a human agent.",
                     "transfer_human", context, FALSE, context, result.store, result.calls)
        ELSE IF result.verified
          THEN Reply(VerifiedPrompt(action, tracking_id), route.next_state,
                     Put(Put(context, route.key, route.step), "identity_verified", TRUE),
                     TRUE, context, result.store, result.calls)
          ELSE Reply(result.message, route.next_state,
                     Put(context, route.key, route.step), TRUE, context,
                     result.store, result.calls)

\* _handle_identity_verification
_handle_identity_verification(user_message, heard, context, st) ==
    LET tracking_id == Get(context, "tracking_id")
        result == tools_verify_customer_identity(st, user_message, tracking_id)
        action == GetOr(context, "action", "reschedule")
        route == VerifiedRoute(action)
    IN  IF tracking_id \in {None, ""}
          THEN Reply("I seem to have lost your tracking information. Could you please provide your tracking ID again?",
                     "rescheduling", EmptyContext, TRUE, context, st, <<>>)
        ELSE IF ~result.success
          THEN Reply(result.message \o " Let me transfer you to a human agent.",
                     "transfer_human", context, FALSE, context, result.store, result.calls)
        ELSE IF result.verified
          THEN Reply(VerifiedPrompt(action, tracking_id), route.next_state,
                     Put(Put(context, route.key, route.step), "identity_verified", TRUE),
                     TRUE, context, result.store, result.calls)
          ELSE Reply(result.message, "transfer_human", context, FALSE, context,
                     result.store, result.calls)

\* _handle_cancellation sending a caller who gives the tracking id to identity
\* verification, as the address and time flows do, instead of cancelling at once
_handle_cancellation_verifying(user_message, heard, context, st) ==
    LET step == GetOr(context, "step", "get_tracking_id")
        spoken_id == heard.tracking_id
        result == tools_cancel_shipment(st, Get(context, "tracking_id"))
    IN  CASE step = "get_tracking_id" ->
               IF spoken_id # None
                 THEN LET c == Put(Put(context, "tracking_id", spoken_id),
                                   "action", "cancel")
                      IN  Reply("For security, I need to verify your identity. What's your name?",
                                "identity_verification", c, TRUE, c, st, <<>>)
                 ELSE Reply("I didn't catch your tracking ID. Could you please repeat it?",
                            "cancellation", context, TRUE, context, st, <<>>)
          [] step = "confirm_cancellation" ->
               IF heard.confirms /\ result.success
                 THEN Reply(result.message, "completion", EmptyContext, TRUE, context,
                            result.store, result.calls)
                 ELSE Reply("Cancellation cancelled. Your shipment remains active. Is there anything else I can help you with?",
                            "completion", EmptyContext, TRUE, context, st, <<>>)
          [] OTHER -> ReturnsNone(context, st, <<>>)

\* _handle_cancellation
_handle_cancellation(user_message, heard, context, st) ==
    LET step == GetOr(context, "step", "get_tracking_id")
        spoken_id == heard.tracking_id
        result == tools_cancel_shipment(st, Get(context, "tracking_id"))
    IN  CASE step = "get_tracking_id" ->
               IF spoken_id # None
                 THEN CancelImmediately(spoken_id, context, st)
                 ELSE Reply("I didn't catch your tracking ID. Could you please repeat it?",
                            "cancellation", context, TRUE, context, st, <<>>)
          [] step = "confirm_cancellation" ->
               IF heard.confirms
                 THEN IF result.success
                        THEN Reply(result.message
                                   \o " Is there anything else I can help you with?",
                                   "completion", EmptyContext, TRUE, context,
                                   result.store, result.calls)
                        ELSE Reply(result.message \o " Let me transfer you to a human agent.",
                                   "transfer_human", context, FALSE, context,
                                   result.store, result.calls)
                 ELSE Reply("Cancellation cancelled. Your shipment remains active. Is there anything else I can help you with?",
                            "completion", EmptyContext, TRUE, context, st, <<>>)
          [] OTHER -> ReturnsNone(context, st, <<>>)

\* _handle_address_update
_handle_address_update(user_message, heard, context, st) ==
    LET step == GetOr(context, "step", "get_tracking_id")
        spoken_id == heard.tracking_id
        result == tools_update_address(st, Get(context, "tracking_id"),
                                       Get(context, "address_type"), user_message)
    IN  CASE step = "get_tracking_id" ->
               IF spoken_id # None
                 THEN LET c == Put(Put(context, "tracking_id", spoken_id),
                                   "action", "update_address")
                      IN  Reply("I can help you update the address for shipment "
                                \o spoken_id
                                \o ". For security, I need to verify your identity. What's your name?",
                                "identity_verification", c, TRUE, c, st, <<>>)
                 ELSE Reply("I didn't catch your tracking ID. Could you please repeat it?",
                            "address_update", context, TRUE, context, st, <<>>)
          [] step = "select_address_type" ->
               IF heard.address_type = "pickup"
                 THEN LET c == Put(context, "address_type", "pickup")
                      IN  Reply("What's the new pickup address?", "address_update",
                                Put(c, "step", "get_new_address"), TRUE, c, st, <<>>)
               ELSE IF heard.address_type = "delivery"
                 THEN LET c == Put(context, "address_type", "delivery")
                      IN  Reply("What's the new delivery address?", "address_update",
                                Put(c, "step", "get_new_address"), TRUE, c, st, <<>>)
                 ELSE Reply("I didn't understand. Please say either 'pickup address' or 'delivery address'.",
                            "address_update", context, TRUE, context, st, <<>>)
          [] step = "get_new_address" ->
               IF result.success
                 THEN Reply(result.message \o " Is there anything else I can help you with?",
                            "completion", EmptyContext, TRUE, context, result.store,
                            result.calls)
                 ELSE Reply(result.message \o " Let me transfer you to a human agent.",
                            "transfer_human", context, FALSE, context, result.store,
                            result.calls)
          [] OTHER -> ReturnsNone(context, st, <<>>)

\* _handle_time_update without a branch for the step get_new_time
_handle_time_update_unserved(user_message, heard, context, st, now) ==
    IF GetOr(context, "step", "get_tracking_id") = "get_tracking_id"
      THEN IF heard.tracking_id # None
             THEN Reply("For security, I need to verify your identity. What's your name?",
                        "identity_verification",
                        Put(Put(context, "tracking_id", heard.tracking_id),
                            "action", "update_time"),
                        TRUE,
                        Put(Put(context, "tracking_id", heard.tracking_id),
                            "action", "update_time"),
                        st, <<>>)
             ELSE Reply("I didn't catch your tracking ID. Could you please repeat it?",
                        "time_update", context, TRUE, context, st, <<>>)
      ELSE ReturnsNone(context, st, <<>>)

\* _handle_time_update
_handle_time_update(user_message, heard, context, st, now) ==
    LET step == GetOr(context, "step", "get_tracking_id")
        spoken_id == heard.tracking_id
        new_date == heard.date[now]
        result == tools_update_delivery_time(st, Get(context, "tracking_id"),
                                             user_message, new_date)
    IN  CASE step = "get_tracking_id" ->
               IF spoken_id # None
                 THEN LET c == Put(Put(context, "tracking_id", spoken_id),
                                   "action", "update_time")
                      IN  Reply("I can help you change the delivery time for shipment "
                                \o spoken_id
                                \o ". For security, I need to verify your identity. What's your name?",
                                "identity_verification", c, TRUE, c, st, <<>>)
                 ELSE Reply("I didn't catch your tracking ID. Could you please repeat it?",
                            "time_update", context, TRUE, context, st, <<>>)
          [] step = "get_new_time" ->
               IF result.success
                 THEN Reply(result.message \o " Is there anything else I can help you with?",
                            "completion", EmptyContext, TRUE, context, result.store,
                            result.calls)
                 ELSE Reply(result.message \o " Let me transfer you to a human agent.",
                            "transfer_human", context, FALSE, context, result.store,
                            result.calls)
          [] OTHER -> ReturnsNone(context, st, <<>>)

\* the handler process_message dispatches current_state to
Dispatch(user_message, heard, current_state, context, st, now, new_id) ==
    CASE current_state = "greeting" -> _handle_greeting(user_message, heard, context, st)
      [] current_state = "intent_detection" ->
           _handle_intent_detection(user_message, heard, context, st)
      [] current_state = "tracking" -> _handle_tracking(user_message, heard, context, st)
      [] current_state = "booking" ->
           _handle_booking(user_message, heard, context, st, now, new_id)
      [] current_state = "rescheduling" ->
           _handle_rescheduling(user_message, heard, context, st, now)
      [] current_state = "cancellation" -> _handle_cancellation(user_message, heard, context, st)
      [] current_state = "address_update" ->
           _handle_address_update(user_message, heard, context, st)
      [] current_state = "time_update" ->
           _handle_time_update(user_message, heard, context, st, now)
      [] current_state = "identity_verification" ->
           _handle_identity_verification(user_message, heard, context, st)
      [] OTHER -> _handle_intent_detection(user_message, heard, context, st)

\* process_message without its except clause
Caught_propagates(r) == r

\* the except clause of process_message: a raise in a handler becomes a
\* hand-off that carries the caller's context; raised records that the result
\* comes from the except clause
Caught(r) ==
    IF r.outcome = "raise"
      THEN [Reply("I'm sorry, I'm having technical difficulties. Let me transfer you to a human agent.",
                  "transfer_human", r.ctx_in, FALSE, r.ctx_in, r.store, r.calls)
            EXCEPT !.raised = TRUE]
      ELSE r

\* user_message.lower().strip()
Normalize(user_message0) ==
    IF user_message0 \in Utterances THEN Normalized[user_message0]
    ELSE Strip(Lower(user_message0))

\* the interrupt and the dispatch, on the normalized message; heard is
\* Hear(user_message)
Route(user_message, heard, current_state, context, st, now, new_id) ==
    IF heard.human
      THEN _transfer_to_human(context, st)
      ELSE Caught(Dispatch(user_message, heard, current_state, context, st, now, new_id))

\* the message as the handlers see it, and what they hear in it
Hearing(user_message, current_state, context, st, now, new_id) ==
    Route(user_message, Hear(user_message), current_state, context, st, now, new_id)

\* process_message
process_message(user_message0, current_state, context, st, now, new_id) ==
    Hearing(Normalize(user_message0), current_state, context, st, now, new_id)

(***************************************************************************)
(* The webhook loop (main.py) and the environment                          *)
(***************************************************************************)

\* the number of process-speech requests in a behaviour
MaxTurns == 5

\* the call identifiers Twilio uses
CallSids == {"CA1"}

\* the rows of table shipments when the service starts
InitialStore ==
    ("12345678" :> [customer_name |-> "John Smith",
                    pickup_address |-> "Elm Road",
                    delivery_address |-> "9 Pine Street, Austin, TX",
                    delivery_date |-> "2025-12-10",
                    status |-> "booked"])
    @@ ("12345603" :> [customer_name |-> "Mary Jones",
                       pickup_address |-> "Mill Lane",
                       delivery_address |-> "Dock Road",
                       delivery_date |-> "2025-12-20",
                       status |-> "pending"])

\* no process-speech request has been served yet
NoTurn == [kind |-> "none"]

\* no process-speech request is being served
NoRequest == [sid \in {} |-> 0]

Init ==
    /\ store = InitialStore
    /\ active_calls = [sid \in {} |-> 0]
    /\ last = NoTurn
    /\ verified = [sid \in CallSids |-> None]
    /\ turns = 0
    /\ in_flight = NoRequest

\* handle_voice_call with the table of sessions built anew around the one
\* session
handle_voice_call_alone(call_sid) ==
    /\ active_calls' = (call_sid :> [conversation_state |-> "greeting",
                                     context |-> EmptyContext])
    /\ verified' = [verified EXCEPT ![call_sid] = None]
    /\ UNCHANGED <<store, last, turns, in_flight>>

\* handle_voice_call: POST /webhook/voice opens (or reopens) the session
handle_voice_call(call_sid) ==
    /\ active_calls' = [sid \in DOMAIN active_calls \cup {call_sid} |->
                          IF sid = call_sid
                            THEN [conversation_state |-> "greeting",
                                  context |-> EmptyContext]
                            ELSE active_calls[sid]]
    /\ verified' = [verified EXCEPT ![call_sid] = None]
    /\ UNCHANGED <<store, last, turns, in_flight>>

\* the tracking id the caller of call_sid is verified for after a turn: the id
\* of a verification that has just succeeded, else the earlier one as long as
\* the context still holds that tracking id
VerifiedAfter(call_sid, state, r, context_after) ==
    IF /\ state = "identity_verification"
       /\ r.outcome = "result"
       /\ r.continue_conversation
       /\ "identity_verified" \in DOMAIN r.context
       /\ Len(r.calls) > 0
      THEN r.calls[1].tracking_id
    ELSE IF Get(context_after, "tracking_id") = verified[call_sid]
      THEN verified[call_sid]
      ELSE None

\* the context of the session after the turn: dict.update of the context the
\* handler was given (and may have changed) with the context it returned
ContextAfter(r) ==
    IF r.outcome = "result" THEN Update(r.ctx_in, r.context) ELSE r.ctx_in

\* the part of process_speech that follows process_message: the session is
\* updated when the conversation continues and deleted when it ends; when
\* process_message raised, the session keeps the changes made to its context
UpdateCallContext(call_sid, user_text, call_context, r, context_after) ==
    /\ last' = [kind |-> "turn", call_sid |-> call_sid,
                user_text |-> user_text,
                verified |-> verified[call_sid],
                state |-> call_context.conversation_state,
                context |-> call_context.context,
                store |-> store,
                response |-> r]
    /\ store' = Rows(r.store)
    /\ verified' = [verified EXCEPT ![call_sid] =
                      IF r.outcome = "result" /\ ~r.continue_conversation
                        THEN None
                        ELSE VerifiedAfter(call_sid, call_context.conversation_state,
                                           r, context_after)]
    /\ active_calls' =
         IF r.outcome # "result"
           THEN [active_calls EXCEPT ![call_sid].context = r.ctx_in]
         ELSE IF r.continue_conversation
           THEN [active_calls EXCEPT
                   ![call_sid].conversation_state = r.next_state,
                   ![call_sid].context = context_after]
           ELSE [sid \in DOMAIN active_calls \ {call_sid} |-> active_calls[sid]]
    /\ UNCHANGED in_flight

\* the turn of a session that exists
Serve(call_sid, user_text, call_context, r) ==
    UpdateCallContext(call_sid, user_text, call_context, r, ContextAfter(r))

\* the body of process_speech; st is the store as the request finds it
Request(call_sid, user_text, now, new_id, st) ==
    /\ turns < MaxTurns
    /\ turns' = turns + 1
    /\ IF call_sid \notin DOMAIN active_calls
         THEN /\ last' = [kind |-> "no_session", call_sid |-> call_sid]
              /\ UNCHANGED <<store, active_calls, verified, in_flight>>
         ELSE Serve(call_sid, user_text, active_calls[call_sid],
                    process_message(user_text,
                                    active_calls[call_sid].conversation_state,
                                    active_calls[call_sid].context, st, now, new_id))

\* process_speech: POST /webhook/process-speech/{call_sid}.  user_text is the
\* transcript of the recording
process_speech(call_sid, user_text, now, new_id) ==
    Request(call_sid, user_text, now, new_id, store)

\* transfer_to_human: POST /webhook/transfer-human/{call_sid}
transfer_to_human(call_sid) ==
    /\ call_sid \in DOMAIN active_calls
    /\ active_calls' = [sid \in DOMAIN active_calls \ {call_sid} |-> active_calls[sid]]
    /\ verified' = [verified EXCEPT ![call_sid] = None]
    /\ UNCHANGED <<store, last, turns, in_flight>>

\* the transcripts tried in a session: every one, but the slot answers alone
\* where the handler keeps the text it hears
Offered(call_sid) ==
    IF call_sid \notin DOMAIN active_calls THEN {"yes"}
    ELSE LET call_context == active_calls[call_sid]
         IN  IF \/ call_context.conversation_state = "booking"
                \/ /\ call_context.conversation_state = "address_update"
                   /\ Get(call_context.context, "step") = "get_new_address"
               THEN SlotAnswers
               ELSE Utterances

\* the identifiers the store can draw in a turn of the session: it draws one
\* only when the turn books
Draws(call_sid) ==
    IF /\ call_sid \in DOMAIN active_calls
       /\ active_calls[call_sid].conversation_state = "booking"
       /\ Get(active_calls[call_sid].context, "booking_step") = "delivery_date"
      THEN BookIds ELSE {None}

Next ==
    \/ \E call_sid \in CallSids : handle_voice_call(call_sid)
    \/ \E call_sid \in CallSids : \E user_text \in Offered(call_sid) :
         \E now \in CurrentDates, new_id \in Draws(call_sid) :
           process_speech(call_sid, user_text, now, new_id)
    \/ \E call_sid \in CallSids : transfer_to_human(call_sid)

Spec == Init /\ [][Next]_vars

(***************************************************************************)
(* The webhook loop while the database comes and goes: a request is served *)
(* either with the database reachable or with every acquire raising        *)
(***************************************************************************)

\* process_speech served while the pool cannot reach the database
process_speech_outage(call_sid, user_text, now, new_id) ==
    Request(call_sid, user_text, now, new_id, Disconnected(store))

NextOutage ==
    \/ \E call_sid \in CallSids : handle_voice_call(call_sid)
    \/ \E call_sid \in CallSids : \E user_text \in Offered(call_sid) :
         \E now \in CurrentDates, new_id \in Draws(call_sid) :
           process_speech(call_sid, user_text, now, new_id)
    \/ \E call_sid \in CallSids : \E user_text \in Offered(call_sid) :
         \E now \in CurrentDates, new_id \in Draws(call_sid) :
           process_speech_outage(call_sid, user_text, now, new_id)
    \/ \E call_sid \in CallSids : transfer_to_human(call_sid)

SpecOutage == Init /\ [][NextOutage]_vars

(***************************************************************************)
(* The lookup on its own: get_shipment applied to any identifier of        *)
(* LookupIds over any store whose rows are among StoredIds                 *)
(***************************************************************************)

\* an identifier ending in 00 and the nine identifiers that differ from it in
\* the last two digits
StoredIds == {"12345600"} \cup {"123456" \o Variants[k] : k \in 1..Len(Variants)}

\* the identifiers looked up: eight characters ending in 00, eight characters
\* not ending in 00, and seven and nine characters ending in 00
LookupIds == {"12345600", "12345604", "12345678", "1234500", "123456700"}

SomeShipment ==
    [customer_name |-> "John Smith", pickup_address |-> "Elm Road",
     delivery_address |-> "9 Pine Street, Austin, TX",
     delivery_date |-> "2025-12-10", status |-> "booked"]

InitLookup ==
    /\ \E present \in SUBSET StoredIds : store = [id \in present |-> SomeShipment]
    /\ active_calls = [sid \in {} |-> 0]
    /\ last = NoTurn
    /\ verified = [sid \in CallSids |-> None]
    /\ turns = 0
    /\ in_flight = NoRequest

\* a caller of LogisticsTools.get_shipment
get_shipment(tracking_id) ==
    /\ last' = [kind |-> "lookup", tracking_id |-> tracking_id,
                response |-> tools_get_shipment(store, tracking_id)]
    /\ UNCHANGED <<store, active_calls, verified, turns, in_flight>>

NextLookup == \E tracking_id \in LookupIds : get_shipment(tracking_id)

SpecLookup == InitLookup /\ [][NextLookup]_vars

(***************************************************************************)
(* The extractor on its own: _extract_tracking_id applied to messages made *)
(* of a prefix, a run of digits and a suffix                               *)
(***************************************************************************)

\* what precedes the run: nothing, a word and a space, a letter, a short run,
\* a run of nine digits, an abbreviation
ExtractPrefixes == {"", "id ", "x", "12 ", "123456789 ", "no. "}

\* runs of zero, six, seven, eight and nine digits
ExtractRuns == {"", "123456", "1234567", "12345678", "123456789", "7654321", "00000000"}

\* what follows the run: nothing, a word, a letter, a full stop, a second run
\* of seven digits, an underscore
ExtractSuffixes == {"", " now", "a", ".", " 7654321", "_"}

ExtractInputs ==
    {p \o r \o x : p \in ExtractPrefixes, r \in ExtractRuns, x \in ExtractSuffixes}

InitExtract ==
    /\ store = InitialStore
    /\ active_calls = [sid \in {} |-> 0]
    /\ last = NoTurn
    /\ verified = [sid \in CallSids |-> None]
    /\ turns = 0
    /\ in_flight = NoRequest

\* a caller of _extract_tracking_id
extract_tracking_id(message) ==
    /\ last' = [kind |-> "extract", message |-> message,
                tracking_id |-> _extract_tracking_id(message)]
    /\ UNCHANGED <<store, active_calls, verified, turns, in_flight>>

NextExtract == \E message \in ExtractInputs : extract_tracking_id(message)

SpecExtract == InitExtract /\ [][NextExtract]_vars

(***************************************************************************)
(* Two calls served by the one event loop.  A process-speech request runs  *)
(* in three steps, between which the requests of the other call run: up to *)
(* the return of process_message, the update of the session, and the       *)
(* response, which deletes the session when the conversation ends.         *)
(* in_flight[call_sid] is the request of call_sid being served: the step   *)
(* it is at and the Turn Result it holds.                                  *)
(***************************************************************************)

\* the calls in progress
Callers == {"CA1", "CA2"}

\* what the two callers say
CallerSays ==
    {"track 12345678", "postpone 12345678", "cancel 12345678", "John",
     "december 15th", "bye"}

\* active_calls or in_flight without the entry of call_sid
Without(f, call_sid) == [sid \in DOMAIN f \ {call_sid} |-> f[sid]]

InitCalls ==
    /\ store = InitialStore
    /\ active_calls = [sid \in {} |-> 0]
    /\ last = NoTurn
    /\ verified = [sid \in Callers |-> None]
    /\ turns = 0
    /\ in_flight = NoRequest

\* process_message has returned r to the request of call_sid: the store
\* operations are done and the handler's assignments are in the session's
\* context, which is the dictionary the handler was given
Answering(call_sid, user_text, call_context, r) ==
    /\ last' = [kind |-> "turn", call_sid |-> call_sid,
                user_text |-> user_text,
                verified |-> verified[call_sid],
                state |-> call_context.conversation_state,
                context |-> call_context.context,
                store |-> store,
                response |-> r]
    /\ store' = Rows(r.store)
    /\ active_calls' = [active_calls EXCEPT ![call_sid].context = r.ctx_in]
    /\ in_flight' = in_flight @@ (call_sid :> [pc |-> "update", response |-> r])
    /\ UNCHANGED verified

\* process_speech, lines 67-88: the session is looked up and process_message
\* is awaited
process_speech_begin(call_sid, user_text, now, new_id) ==
    /\ turns < MaxTurns
    /\ call_sid \notin DOMAIN in_flight
    /\ turns' = turns + 1
    /\ IF call_sid \notin DOMAIN active_calls
         THEN /\ last' = [kind |-> "no_session", call_sid |-> call_sid]
              /\ UNCHANGED <<store, active_calls, verified, in_flight>>
         ELSE Answering(call_sid, user_text, active_calls[call_sid],
                        process_message(user_text,
                                        active_calls[call_sid].conversation_state,
                                        active_calls[call_sid].context, store, now, new_id))

\* lines 91-92 on the session call_sid has now
Updating(call_sid, call_context, r) ==
    /\ active_calls' = [active_calls EXCEPT
                          ![call_sid].conversation_state = r.next_state,
                          ![call_sid].context = Update(call_context.context, r.context)]
    /\ verified' = [verified EXCEPT ![call_sid] =
                      IF ~r.continue_conversation
                        THEN None
                        ELSE VerifiedAfter(call_sid, call_context.conversation_state, r,
                                           Update(call_context.context, r.context))]
    /\ in_flight' = [in_flight EXCEPT ![call_sid].pc = "respond"]
    /\ UNCHANGED <<store, last, turns>>

\* process_speech, lines 91-92: the session takes next_state and the returned
\* context; without a session, or with a response of None, the statement
\* raises and the except clause of process_speech ends the request
process_speech_update(call_sid) ==
    /\ call_sid \in DOMAIN in_flight
    /\ in_flight[call_sid].pc = "update"
    /\ IF call_sid \in DOMAIN active_calls
          /\ in_flight[call_sid].response.outcome = "result"
         THEN Updating(call_sid, active_calls[call_sid], in_flight[call_sid].response)
         ELSE /\ in_flight' = Without(in_flight, call_sid)
              /\ UNCHANGED <<store, active_calls, last, verified, turns>>

\* process_speech, lines 94-117: the message is spoken, and the session is
\* deleted when the conversation does not continue
process_speech_respond(call_sid) ==
    /\ call_sid \in DOMAIN in_flight
    /\ in_flight[call_sid].pc = "respond"
    /\ in_flight' = Without(in_flight, call_sid)
    /\ active_calls' = IF in_flight[call_sid].response.continue_conversation
                         THEN active_calls
                         ELSE Without(active_calls, call_sid)
    /\ UNCHANGED <<store, last, verified, turns>>

NextCalls ==
    \/ \E call_sid \in Callers : handle_voice_call(call_sid)
    \/ \E call_sid \in Callers : \E user_text \in CallerSays :
         \E now \in CurrentDates, new_id \in Draws(call_sid) :
           process_speech_begin(call_sid, user_text, now, new_id)
    \/ \E call_sid \in Callers : process_speech_update(call_sid)
    \/ \E call_sid \in Callers : process_speech_respond(call_sid)
    \/ \E call_sid \in Callers : transfer_to_human(call_sid)

SpecCalls == InitCalls /\ [][NextCalls]_vars

(***************************************************************************)
(* The webhook loop while the speech service comes and goes: a request is  *)
(* served either with text_to_speech returning the audio or with           *)
(* text_to_speech raising, which sends process_speech to its except clause *)
(* after the session was updated and before it is deleted                  *)
(***************************************************************************)

\* lines 83-92 followed by the except clause of lines 119-130: the session
\* has taken the result and stays
ServeUnspoken(call_sid, user_text, call_context, r) ==
    /\ last' = [kind |-> "turn", call_sid |-> call_sid,
                user_text |-> user_text,
                verified |-> verified[call_sid],
                state |-> call_context.conversation_state,
                context |-> call_context.context,
                store |-> store,
                response |-> r]
    /\ store' = Rows(r.store)
    /\ verified' = [verified EXCEPT ![call_sid] =
                      VerifiedAfter(call_sid, call_context.conversation_state,
                                    r, ContextAfter(r))]
    /\ active_calls' =
         IF r.outcome # "result"
           THEN [active_calls EXCEPT ![call_sid].context = r.ctx_in]
           ELSE [active_calls EXCEPT
                   ![call_sid].conversation_state = r.next_state,
                   ![call_sid].context = ContextAfter(r)]
    /\ UNCHANGED in_flight

\* process_speech served while text_to_speech raises
process_speech_unspoken(call_sid, user_text, now, new_id) ==
    /\ turns < MaxTurns
    /\ turns' = turns + 1
    /\ call_sid \in DOMAIN active_calls
    /\ ServeUnspoken(call_sid, user_text, active_calls[call_sid],
                     process_message(user_text,
                                     active_calls[call_sid].conversation_state,
                                     active_calls[call_sid].context, store, now, new_id))

NextSpeech ==
    \/ \E call_sid \in CallSids : handle_voice_call(call_sid)
    \/ \E call_sid \in CallSids : \E user_text \in Offered(call_sid) :
         \E now \in CurrentDates, new_id \in Draws(call_sid) :
           process_speech(call_sid, user_text, now, new_id)
    \/ \E call_sid \in CallSids : \E user_text \in Offered(call_sid) :
         \E now \in CurrentDates, new_id \in Draws(call_sid) :
           process_speech_unspoken(call_sid, user_text, now, new_id)
    \/ \E call_sid \in CallSids : transfer_to_human(call_sid)

SpecSpeech == Init /\ [][NextSpeech]_vars

(***************************************************************************)
(* process_message on its own: one call with any state, any context of     *)
(* EngineContexts and any transcript, over a store of EngineStores         *)
(***************************************************************************)

\* the values current_state can be given: the states and the next_state of a
\* farewell
EngineStates ==
    {"greeting", "intent_detection", "tracking", "booking", "rescheduling",
     "cancellation", "address_update", "time_update", "identity_verification",
     "completion", "transfer_human", "completed"}

\* contexts as the flows build them, and contexts that lack slots the
\* handlers read
EngineContexts ==
    {EmptyContext,
     [last_tracking_id |-> "12345678"],
     [booking_step |-> "customer_name"],
     [booking_step |-> "pickup_address", customer_name |-> "John"],
     [booking_step |-> "delivery_address", customer_name |-> "John",
      pickup_address |-> "elm road"],
     [booking_step |-> "delivery_date", customer_name |-> "John",
      pickup_address |-> "elm road", delivery_address |-> "oak avenue"],
     [booking_step |-> "delivery_date", customer_name |-> "John"],
     [booking_step |-> "delivery_date"],
     [reschedule_step |-> "get_new_date"],
     [tracking_id |-> "12345678", action |-> "reschedule",
      reschedule_step |-> "get_new_date", identity_verified |-> TRUE],
     [tracking_id |-> "12345678", action |-> "cancel"],
     [tracking_id |-> "12345678", action |-> "cancel",
      step |-> "confirm_cancellation", identity_verified |-> TRUE],
     [action |-> "cancel", step |-> "confirm_cancellation"],
     [tracking_id |-> "12345678", action |-> "update_address",
      step |-> "select_address_type", identity_verified |-> TRUE],
     [tracking_id |-> "12345678", action |-> "update_address",
      step |-> "get_new_address", address_type |-> "delivery",
      identity_verified |-> TRUE],
     [tracking_id |-> "87654321", action |-> "update_address",
      step |-> "get_new_address", address_type |-> "pickup"],
     [tracking_id |-> "12345678", action |-> "update_time",
      step |-> "get_new_time", identity_verified |-> TRUE],
     [tracking_id |-> "87654321", action |-> "update_time",
      step |-> "get_new_time"]}

\* the table as the service starts, and with the first shipment cancelled
EngineStores ==
    {InitialStore, [InitialStore EXCEPT !["12345678"].status = "cancelled"]}

InitMessage ==
    /\ store \in EngineStores
    /\ active_calls = [sid \in {} |-> 0]
    /\ last = NoTurn
    /\ verified = [sid \in CallSids |-> None]
    /\ turns = 0
    /\ in_flight = NoRequest

\* what one call of process_message leaves behind
Returned(user_text, current_state, context, r) ==
    /\ last' = [kind |-> "turn", call_sid |-> None, user_text |-> user_text,
                verified |-> None, state |-> current_state, context |-> context,
                store |-> store, response |-> r]
    /\ store' = Rows(r.store)
    /\ turns' = turns + 1
    /\ UNCHANGED <<active_calls, verified, in_flight>>

\* one call of ai_agent.process_message
call_process_message(user_text, current_state, context, now, new_id) ==
    /\ last = NoTurn
    /\ Returned(user_text, current_state, context,
                process_message(user_text, current_state, context, store, now, new_id))

NextMessage ==
    \E user_text \in Utterances, current_state \in EngineStates :
      \E context \in EngineContexts, now \in CurrentDates, new_id \in BookIds :
        call_process_message(user_text, current_state, context, now, new_id)

SpecMessage == InitMessage /\ [][NextMessage]_vars

(***************************************************************************)
(* process_message invoked a second time with the arguments of the first   *)
(* invocation, once the first has returned                                 *)
(***************************************************************************)

\* the identifiers random.randint can draw at the second invocation
RedrawIds == BookIds \cup {"10000002"}

\* the second invocation: the utterance, state and context of the first, the
\* store as the first left it
call_process_message_again(now, new_id) ==
    /\ last.kind = "turn"
    /\ last' = [kind |-> "again", first |-> last, store |-> store,
                response |-> process_message(last.user_text, last.state, last.context,
                                             store, now, new_id)]
    /\ store' = Rows(last'.response.store)
    /\ turns' = turns + 1
    /\ UNCHANGED <<active_calls, verified, in_flight>>

NextAgain ==
    \/ \E user_text \in Utterances, current_state \in EngineStates :
         \E context \in EngineContexts, now \in CurrentDates, new_id \in BookIds :
           call_process_message(user_text, current_state, context, now, new_id)
    \/ \E now \in CurrentDates, new_id \in RedrawIds :
         call_process_message_again(now, new_id)

SpecAgain == InitMessage /\ [][NextAgain]_vars

(***************************************************************************)
(* A conversation held by a caller of process_message that keeps, after    *)
(* each turn, the returned next_state and the returned context in place of *)
(* the ones it passed, from state greeting with the empty context, until a *)
(* result ends the conversation                                            *)
(***************************************************************************)

\* the one conversation of the caller
Conversation == "CA1"

InitReplace ==
    /\ store = InitialStore
    /\ active_calls = (Conversation :> [conversation_state |-> "greeting",
                                        context |-> EmptyContext])
    /\ last = NoTurn
    /\ verified = [sid \in CallSids |-> None]
    /\ turns = 0
    /\ in_flight = NoRequest

\* what the caller keeps of the result r
Kept(r) ==
    IF r.outcome = "result" /\ r.continue_conversation
      THEN (Conversation :> [conversation_state |-> r.next_state, context |-> r.context])
      ELSE [sid \in {} |-> 0]

\* one turn of the conversation
converse(user_text, now, new_id) ==
    /\ Conversation \in DOMAIN active_calls
    /\ turns < MaxTurns
    /\ LET r == process_message(user_text, active_calls[Conversation].conversation_state,
                                active_calls[Conversation].context, store, now, new_id)
       IN  /\ last' = [kind |-> "turn", call_sid |-> Conversation,
                       user_text |-> user_text, verified |-> None,
                       state |-> active_calls[Conversation].conversation_state,
                       context |-> active_calls[Conversation].context,
                       store |-> store, response |-> r]
           /\ store' = Rows(r.store)
           /\ active_calls' = Kept(r)
    /\ turns' = turns + 1
    /\ UNCHANGED <<verified, in_flight>>

NextReplace ==
    \E user_text \in Offered(Conversation) :
      \E now \in CurrentDates, new_id \in Draws(Conversation) :
        converse(user_text, now, new_id)

SpecReplace == InitReplace /\ [][NextReplace]_vars

(***************************************************************************)
(* Intent detection on its own: one call of process_message in a state     *)
(* that _handle_intent_detection serves, with a transcript of IntentSays   *)
(***************************************************************************)

NextIntent ==
    \E user_text \in IntentSays, current_state \in {"greeting", "intent_detection"} :
      \E context \in EngineContexts, now \in CurrentDates, new_id \in BookIds :
        call_process_message(user_text, current_state, context, now, new_id)

SpecIntent == InitMessage /\ [][NextIntent]_vars

(***************************************************************************)
(* The address flow on its own: one call of process_message in state       *)
(* address_update after identity verification, with a transcript of        *)
(* AddressSays                                                             *)
(***************************************************************************)

\* the contexts of the two steps that follow identity verification, for the
\* two shipments of the table and for one that is not in it
AddressContexts ==
    {[tracking_id |-> id, action |-> "update_address",
      step |-> "select_address_type", identity_verified |-> TRUE] :
       id \in {"12345678", "12345603", "87654321"}}
    \cup
    {[tracking_id |-> id, action |-> "update_address", step |-> "get_new_address",
      address_type |-> kind, identity_verified |-> TRUE] :
       id \in {"12345678", "12345603", "87654321"}, kind \in {"pickup", "delivery"}}

NextAddress ==
    \E user_text \in AddressSays, context \in AddressContexts :
      \E now \in CurrentDates, new_id \in BookIds :
        call_process_message(user_text, "address_update", context, now, new_id)

SpecAddress == InitMessage /\ [][NextAddress]_vars

(***************************************************************************)
(* Database.cancel_shipment called by two requests at a time.  The method  *)
(* awaits twice on its connection, once for the SELECT and once for the    *)
(* UPDATE, outside a transaction: another call can run between the two     *)
(***************************************************************************)

\* the cancel invocations made in a behaviour
MaxCancels == 4

\* the tracking ids the invocations are for: the rows of the table and one
\* that is not in it
CancelIds == DOMAIN InitialStore \cup {"87654321"}

\* no invocation has returned yet
NoCancels ==
    [kind |-> "cancels", succeeded |-> [id \in CancelIds |-> 0],
     failed |-> [id \in CancelIds |-> 0], exc |-> None, message |-> None]

InitCancel ==
    /\ store = InitialStore
    /\ active_calls = [sid \in {} |-> 0]
    /\ last = NoCancels
    /\ verified = [sid \in CallSids |-> None]
    /\ turns = 0
    /\ in_flight = NoRequest

\* the invocation of call_sid returns its dict
cancel_returns(call_sid, tracking_id) ==
    /\ last' = [last EXCEPT !.succeeded[tracking_id] = @ + 1,
                            !.exc = "", !.message = ""]
    /\ in_flight' = Without(in_flight, call_sid)

\* the invocation of call_sid raises ValueError(message)
cancel_raises(call_sid, tracking_id, message) ==
    /\ last' = [last EXCEPT !.failed[tracking_id] = @ + 1,
                            !.exc = "ValueError", !.message = message]
    /\ in_flight' = Without(in_flight, call_sid)

\* a request enters cancel_shipment(tracking_id) and acquires a connection
cancel_shipment_begin(call_sid, tracking_id) ==
    /\ call_sid \notin DOMAIN in_flight
    /\ turns < MaxCancels
    /\ turns' = turns + 1
    /\ in_flight' = in_flight @@ (call_sid :> [tracking_id |-> tracking_id,
                                               pc |-> "fetchrow", existing |-> None])
    /\ UNCHANGED <<store, active_calls, last, verified>>

\* the SELECT and the two tests on its row
cancel_shipment_fetchrow(call_sid) ==
    /\ call_sid \in DOMAIN in_flight
    /\ in_flight[call_sid].pc = "fetchrow"
    /\ LET tracking_id == in_flight[call_sid].tracking_id
       IN  IF tracking_id \notin DOMAIN store
             THEN cancel_raises(call_sid, tracking_id,
                    "Shipment with tracking ID " \o tracking_id \o " not found")
           ELSE IF store[tracking_id].status = "cancelled"
             THEN cancel_raises(call_sid, tracking_id,
                    "Shipment " \o tracking_id \o " is already cancelled")
             ELSE /\ in_flight' = [in_flight EXCEPT ![call_sid].pc = "execute",
                                     ![call_sid].existing = store[tracking_id]]
                  /\ UNCHANGED last
    /\ UNCHANGED <<store, active_calls, verified, turns>>

\* the UPDATE and the return
cancel_shipment_execute(call_sid) ==
    /\ call_sid \in DOMAIN in_flight
    /\ in_flight[call_sid].pc = "execute"
    /\ LET tracking_id == in_flight[call_sid].tracking_id
       IN  /\ store' = [store EXCEPT ![tracking_id].status = "cancelled"]
           /\ cancel_returns(call_sid, tracking_id)
    /\ UNCHANGED <<active_calls, verified, turns>>

NextCancel ==
    \/ \E call_sid \in Callers, tracking_id \in CancelIds :
         cancel_shipment_begin(call_sid, tracking_id)
    \/ \E call_sid \in Callers : cancel_shipment_fetchrow(call_sid)
    \/ \E call_sid \in Callers : cancel_shipment_execute(call_sid)

SpecCancel == InitCancel /\ [][NextCancel]_vars

(***************************************************************************)
(* Two process-speech requests for one call at a time.  A request yields   *)
(* to the other where process_speech awaits: at speech_to_text, inside     *)
(* process_message while a store operation is awaited, and at              *)
(* text_to_speech.  A turn without a store operation runs from the lookup  *)
(* of the session to the update of the session without yielding            *)
(***************************************************************************)

\* the two requests, both for the call OverlapCall
OverlapRequests == {"R1", "R2"}

OverlapCall == "CA1"

\* what the recordings of the two requests say
OverlapSays ==
    {"track 12345678", "cancel my shipment and track it", "cancel 12345678",
     "postpone 12345678", "John", "bye"}

\* the sessions once handle_voice_call has opened the call
OpenedCall ==
    (OverlapCall :> [conversation_state |-> "greeting", context |-> EmptyContext])

InitOverlap ==
    /\ store = InitialStore
    /\ active_calls = OpenedCall
    /\ last = [kind |-> "overlap", failed |-> {}]
    /\ verified = [sid \in CallSids |-> None]
    /\ turns = 0
    /\ in_flight = NoRequest

\* the except clause of process_speech: the request ends with the apology
overlap_fails(request) ==
    /\ last' = [last EXCEPT !.failed = @ \cup {request}]
    /\ in_flight' = [in_flight EXCEPT ![request].pc = "done"]

\* lines 91-92 on the session, whose context is now context; context.update(d)
\* with d the session's own dict, which a handler returns when it returns its
\* argument, changes nothing
OverlapUpdating(request, r, context) ==
    /\ active_calls' =
         [active_calls EXCEPT
            ![OverlapCall].conversation_state = r.next_state,
            ![OverlapCall].context =
               IF r.context = r.ctx_in THEN context ELSE Update(context, r.context)]
    /\ in_flight' = [in_flight EXCEPT ![request].pc = "respond",
                                      ![request].response = r]

\* lines 67-80: the session is looked up and the recording is transcribed
overlap_begin(request, user_text) ==
    /\ request \notin DOMAIN in_flight
    /\ turns' = turns + 1
    /\ in_flight' = in_flight @@
         (request :> [pc |-> IF OverlapCall \in DOMAIN active_calls
                               THEN "process" ELSE "done",
                      user_text |-> user_text, response |-> None])
    /\ UNCHANGED <<store, active_calls, last, verified>>

\* what line 83 onward does with the response r: with a store operation in
\* it the request yields before it updates the session, the context as the
\* handler changed it in place
OverlapAnswering(request, r) ==
    IF r.outcome # "result"
      THEN /\ active_calls' = [active_calls EXCEPT ![OverlapCall].context = r.ctx_in]
           /\ store' = Rows(r.store)
           /\ overlap_fails(request)
    ELSE IF r.calls = <<>>
      THEN /\ OverlapUpdating(request, r, r.ctx_in)
           /\ UNCHANGED <<store, last>>
      ELSE /\ active_calls' = [active_calls EXCEPT ![OverlapCall].context = r.ctx_in]
           /\ store' = Rows(r.store)
           /\ in_flight' = [in_flight EXCEPT ![request].pc = "update",
                                             ![request].response = r]
           /\ UNCHANGED last

\* lines 83-88: the session is read and process_message is awaited
overlap_process(request, now, new_id) ==
    /\ request \in DOMAIN in_flight
    /\ in_flight[request].pc = "process"
    /\ IF OverlapCall \notin DOMAIN active_calls
         THEN overlap_fails(request) /\ UNCHANGED <<store, active_calls>>
         ELSE OverlapAnswering(request,
                process_message(in_flight[request].user_text,
                                active_calls[OverlapCall].conversation_state,
                                active_calls[OverlapCall].context, store, now, new_id))
    /\ UNCHANGED <<verified, turns>>

\* lines 91-92 after the store operation has returned
overlap_update(request) ==
    /\ request \in DOMAIN in_flight
    /\ in_flight[request].pc = "update"
    /\ IF OverlapCall \notin DOMAIN active_calls
         THEN overlap_fails(request) /\ UNCHANGED active_calls
         ELSE /\ OverlapUpdating(request, in_flight[request].response,
                                 active_calls[OverlapCall].context)
              /\ UNCHANGED last
    /\ UNCHANGED <<store, verified, turns>>

\* lines 94-117: the message is spoken and the session is deleted when the
\* conversation does not continue
overlap_respond(request) ==
    /\ request \in DOMAIN in_flight
    /\ in_flight[request].pc = "respond"
    /\ in_flight' = [in_flight EXCEPT ![request].pc = "done"]
    /\ active_calls' = IF in_flight[request].response.continue_conversation
                         THEN active_calls
                         ELSE Without(active_calls, OverlapCall)
    /\ UNCHANGED <<store, last, verified, turns>>

NextOverlap ==
    \/ \E request \in OverlapRequests, user_text \in OverlapSays :
         overlap_begin(request, user_text)
    \/ \E request \in OverlapRequests, now \in CurrentDates :
         overlap_process(request, now, "10000001")
    \/ \E request \in OverlapRequests : overlap_update(request)
    \/ \E request \in OverlapRequests : overlap_respond(request)

SpecOverlap == InitOverlap /\ [][NextOverlap]_vars

\* the sessions and the store after a request that ran alone and got r
AloneResult(sessions, r) ==
    [sessions |->
       IF r.outcome # "result"
         THEN [sessions EXCEPT ![OverlapCall].context = r.ctx_in]
       ELSE IF r.continue_conversation
         THEN [sessions EXCEPT ![OverlapCall].conversation_state = r.next_state,
                               ![OverlapCall].context = ContextAfter(r)]
         ELSE Without(sessions, OverlapCall),
     store |-> Rows(r.store)]

\* process_speech with the transcript user_text, run from start to end with
\* no other request in between
Alone(after, user_text) ==
    IF OverlapCall \notin DOMAIN after.sessions THEN after
    ELSE AloneResult(after.sessions,
           process_message(user_text,
                           after.sessions[OverlapCall].conversation_state,
                           after.sessions[OverlapCall].context, after.store,
                           "2026-11-01", "10000001"))

\* the sessions after the two requests, one after the other
OneAfterTheOther(first, second) ==
    Alone(Alone([sessions |-> OpenedCall, store |-> InitialStore], first), second).sessions

(***************************************************************************)
(* Database.book_shipment called by two requests at a time.  The method    *)
(* draws the tracking id, then awaits a connection and one INSERT          *)
(***************************************************************************)

\* the book invocations made in a behaviour
MaxBooks == 4

\* the values random.randint(10000000, 99999999) can draw: the two ends of
\* the range, a value in it, and the id of a row of the table
BookDraws == {"10000000", "10000001", "99999999", "12345678"}

\* the customers who book
BookNames == {"John Smith", "Ann Lee"}

InitBook ==
    /\ store = InitialStore
    /\ active_calls = [sid \in {} |-> 0]
    /\ last = [kind |-> "books", tracking_id |-> None, exc |-> None, before |-> InitialStore]
    /\ verified = [sid \in CallSids |-> None]
    /\ turns = 0
    /\ in_flight = NoRequest

\* lines 101-109: the id is drawn and the connection is awaited
book_shipment_begin(call_sid, tracking_id, customer_name) ==
    /\ call_sid \notin DOMAIN in_flight
    /\ turns < MaxBooks
    /\ turns' = turns + 1
    /\ in_flight' = in_flight @@ (call_sid :> [tracking_id |-> tracking_id,
                                               customer_name |-> customer_name])
    /\ UNCHANGED <<store, active_calls, last, verified>>

\* what the INSERT and the return or raise leave behind
book_shipment_done(call_sid, tracking_id, r) ==
    /\ store' = Rows(r.store)
    /\ last' = [kind |-> "books", tracking_id |-> tracking_id, exc |-> r.exc,
                before |-> store]
    /\ in_flight' = Without(in_flight, call_sid)

\* lines 110-131: the INSERT
book_shipment_execute(call_sid) ==
    /\ call_sid \in DOMAIN in_flight
    /\ book_shipment_done(call_sid, in_flight[call_sid].tracking_id,
         db_book_shipment(store, in_flight[call_sid].tracking_id,
                          in_flight[call_sid].customer_name, "Elm Road",
                          "Dock Road", "2025-12-24"))
    /\ UNCHANGED <<active_calls, verified, turns>>

NextBook ==
    \/ \E call_sid \in Callers, tracking_id \in BookDraws, customer_name \in BookNames :
         book_shipment_begin(call_sid, tracking_id, customer_name)
    \/ \E call_sid \in Callers : book_shipment_execute(call_sid)

SpecBook == InitBook /\ [][NextBook]_vars

(***************************************************************************)
(* The mutating operations of the store on their own: a sequence of calls  *)
(* of Database.update_shipment, update_shipment_address,                   *)
(* update_delivery_time and cancel_shipment with arguments of StoreInputs  *)
(***************************************************************************)

\* the store operations called in a behaviour
MaxOps == 2

\* new_date: dates strptime accepts, one it rejects, and none given
OpDates == {"2025-12-24", "2026-01-05", "2025-02-30", None}

\* address_type: the two kinds and one that is neither
OpKinds == {"pickup", "delivery", "billing"}

OpAddresses == {"Oak Avenue", "7 Hill Street"}

InitStore ==
    /\ store = InitialStore
    /\ active_calls = [sid \in {} |-> 0]
    /\ last = [kind |-> "none"]
    /\ verified = [sid \in CallSids |-> None]
    /\ turns = 0
    /\ in_flight = NoRequest

\* what the operation op leaves behind: the store, and in last the arguments,
\* the exception raised ("" when the operation returned) and the store before
Operated(op, tracking_id, arg, r) ==
    /\ turns < MaxOps
    /\ turns' = turns + 1
    /\ store' = Rows(r.store)
    /\ last' = [kind |-> "store_op", op |-> op, tracking_id |-> tracking_id,
                arg |-> arg, exc |-> r.exc, before |-> store]
    /\ UNCHANGED <<active_calls, verified, in_flight>>

update_shipment(tracking_id, new_date) ==
    Operated("update_shipment", tracking_id, [new_date |-> new_date],
             db_update_shipment(store, tracking_id, new_date))

update_shipment_address(tracking_id, address_type, new_address) ==
    Operated("update_shipment_address", tracking_id,
             [address_type |-> address_type, new_address |-> new_address],
             db_update_shipment_address(store, tracking_id, address_type, new_address))

update_delivery_time(tracking_id, new_time, new_date) ==
    Operated("update_delivery_time", tracking_id, [new_date |-> new_date],
             db_update_delivery_time(store, tracking_id, new_time, new_date))

cancel_shipment(tracking_id) ==
    Operated("cancel_shipment", tracking_id, [new_date |-> None],
             db_cancel_shipment(store, tracking_id))

NextStore ==
    \/ \E tracking_id \in CancelIds, new_date \in OpDates :
         update_shipment(tracking_id, new_date)
    \/ \E tracking_id \in CancelIds, address_type \in OpKinds, new_address \in OpAddresses :
         update_shipment_address(tracking_id, address_type, new_address)
    \/ \E tracking_id \in CancelIds, new_date \in OpDates :
         update_delivery_time(tracking_id, "morning", new_date)
    \/ \E tracking_id \in CancelIds : cancel_shipment(tracking_id)

SpecStore == InitStore /\ [][NextStore]_vars

(***************************************************************************)
(* The date extractor on its own: _parse_date applied to any utterance of  *)
(* DateInputs on any current date of DateNows                              *)
(***************************************************************************)

\* current dates: mid-month, ends of months, the end of a year, leap days
DateNows ==
    {"2026-11-01", "2026-11-30", "2026-12-31", "2027-01-15", "2027-02-28",
     "2028-02-28", "2028-02-29", "2026-03-31", "2026-04-30", "2026-07-09",
     "2026-10-10", "2025-12-01"}

\* what a caller says when asked for a date
DateInputs ==
    {"today", "tomorrow", "Today", " tomorrow ", "deliver it tomorrow",
     "today please", "december 15th", "2025-12-10", "12/15/2025", "a", ""}

InitDate ==
    /\ store = InitialStore
    /\ active_calls = [sid \in {} |-> 0]
    /\ last = NoTurn
    /\ verified = [sid \in CallSids |-> None]
    /\ turns = 0
    /\ in_flight = NoRequest

\* one call of _parse_date on the current date now
parse_date(date_string, now) ==
    /\ last' = [kind |-> "parse", date_string |-> date_string, now |-> now,
                date |-> _parse_date(date_string, now)]
    /\ UNCHANGED <<store, active_calls, verified, turns, in_flight>>

NextDate == \E date_string \in DateInputs, now \in DateNows : parse_date(date_string, now)

SpecDate == InitDate /\ [][NextDate]_vars

(***************************************************************************)
(* Properties                                                              *)
(***************************************************************************)

\* the last request reached process_message
Turn == last.kind = "turn"

\* user_message as the handlers of the last turn saw it
UserMessage == Normalized[last.user_text]

\* the last turn was dispatched to a flow handler, and the handler returned
Handled ==
    Turn /\ ~Hear(UserMessage).human /\ last.response.outcome = "result"

\* the store operations that change a row
Mutating == {"book_shipment", "update_shipment", "cancel_shipment",
             "update_shipment_address", "update_delivery_time"}

\* the calls of the last turn, as a set
CallsOfTurn == {last.response.calls[i] : i \in 1..Len(last.response.calls)}

\* C1: every reschedule, address update or delivery-time update a turn issues
\* for tracking id T comes after an identity verification of the same call that
\* succeeded for T, with the context's tracking id unchanged since
C1_MutationAfterVerification ==
    Turn =>
      \A c \in CallsOfTurn :
         c.op \in {"update_shipment", "update_shipment_address", "update_delivery_time"}
           => last.verified = c.tracking_id

\* a turn has rescheduled a shipment
C1_Witness ==
    /\ Turn
    /\ Call("update_shipment", "12345678") \in CallsOfTurn
    /\ last.response.outcome = "result"
    /\ "last_update" \in DOMAIN last.response.context
    /\ last.verified = "12345678"

\* the words and the character of the human-transfer interrupt
HumanWords == {"human", "agent", "person", "representative", "operator", "transfer", "*"}

\* C2: in every state and context, a turn whose utterance contains a
\* human-transfer word or * hands off: transfer_human, empty context, the
\* conversation ends, and no store operation is invoked
C2_HumanInterrupt ==
    (Turn /\ \E w \in HumanWords : Contains(last.user_text, w))
      => /\ last.response.outcome = "result"
         /\ last.response.next_state = "transfer_human"
         /\ last.response.context = EmptyContext
         /\ last.response.continue_conversation = FALSE
         /\ last.response.calls = <<>>
         /\ store = last.store

\* the interrupt has overridden a cancellation request that carries a tracking
\* id, in a session whose context was not empty
C2_Witness ==
    /\ Turn
    /\ last.user_text = "cancel 12345678 *"
    /\ last.state = "cancellation"
    /\ last.context # EmptyContext
    /\ last.response.next_state = "transfer_human"

\* the states process_message dispatches to _handle_intent_detection
IntentStates ==
    {"greeting", "intent_detection", "completion", "transfer_human", "completed"}

\* the last turn was a cancellation turn with a tracking id in the utterance
CancelTurnWithId ==
    /\ Handled
    /\ Hear(UserMessage).tracking_id # None
    /\ \/ last.state \in IntentStates /\ Hear(UserMessage).intent = "cancel"
       \/ /\ last.state = "cancellation"
          /\ GetOr(last.context, "step", "get_tracking_id") = "get_tracking_id"

\* C3: a cancellation turn that carries a tracking id invokes the store's
\* cancel exactly once, with that id and nothing else, and returns an empty
\* context, intent_detection and continue_conversation, whether or not the
\* cancel succeeded
C3_ImmediateCancel ==
    CancelTurnWithId =>
      /\ last.response.calls = <<Call("cancel_shipment", Hear(UserMessage).tracking_id)>>
      /\ last.response.context = EmptyContext
      /\ last.response.next_state = "intent_detection"
      /\ last.response.continue_conversation = TRUE

\* a tracking id spoken in state cancellation, step get_tracking_id, has
\* cancelled the shipment
C3_Witness ==
    /\ CancelTurnWithId
    /\ last.state = "cancellation"
    /\ last.user_text = "12345678"
    /\ last.store["12345678"].status # "cancelled"
    /\ store["12345678"].status = "cancelled"

\* the last turn asked the store to cancel a shipment that was cancelled already
CancelOfCancelled ==
    /\ Turn
    /\ \E c \in CallsOfTurn :
         /\ c.op = "cancel_shipment"
         /\ c.tracking_id \in DOMAIN last.store
         /\ last.store[c.tracking_id].status = "cancelled"

\* C4: a turn that tries to cancel a shipment already cancelled, in whichever
\* state and step, reports the error, returns to intent_detection with
\* continue_conversation true, and leaves the record unchanged
C4_AlreadyCancelled ==
    CancelOfCancelled =>
      /\ last.response.outcome = "result"
      /\ Contains(last.response.message, "is already cancelled")
      /\ last.response.next_state = "intent_detection"
      /\ last.response.continue_conversation = TRUE
      /\ store = last.store

\* C5: a cancelled shipment stays cancelled: no turn changes the status or any
\* other field of a record whose status is cancelled
C5_CancelledIsTerminal ==
    Turn =>
      \A id \in DOMAIN last.store :
         last.store[id].status = "cancelled" => store[id] = last.store[id]

\* the intent categories in the order of their precedence
Categories == <<"repeat", "cancel", "track", "update_address", "book", "reschedule",
                "update_time", "farewell">>

\* message matches the keyword set of the category
MatchesCategory(category, message) ==
    CASE category = "repeat" -> Contains(message, "repeat") /\ Contains(message, "tracking")
      [] category = "cancel" -> _wants_to_cancel(message)
      [] category = "track" -> _wants_to_track(message)
      [] category = "update_address" -> _wants_to_update_address(message)
      [] category = "book" -> _wants_to_book(message)
      [] category = "reschedule" -> _wants_to_reschedule(message)
      [] category = "update_time" -> _wants_to_update_time(message)
      [] category = "farewell" -> _wants_farewell(message)

\* the positions in Categories of the categories each message matches
MatchedCategories ==
    [m \in Messages |-> {k \in 1..Len(Categories) : MatchesCategory(Categories[k], m)}]

StartsWith(s, prefix) == Len(s) >= Len(prefix) /\ SubSeq(s, 1, Len(prefix)) = prefix

\* the flow the Turn Result of the last turn belongs to
FlowTaken ==
    LET r == last.response
    IN  CASE StartsWith(r.message, "Of course! Your tracking ID is")
             \/ StartsWith(r.message, "I don't have a recent tracking ID to repeat")
               -> "repeat"
          [] r.next_state = "cancellation"
             \/ \E c \in CallsOfTurn : c.op = "cancel_shipment"
               -> "cancel"
          [] r.next_state = "tracking"
             \/ \E c \in CallsOfTurn : c.op = "get_shipment"
               -> "track"
          [] r.next_state = "address_update"
             \/ /\ r.next_state = "identity_verification"
                /\ StartsWith(r.message, "I can help you update the address")
               -> "update_address"
          [] r.next_state = "booking" -> "book"
          [] r.next_state = "rescheduling"
             \/ /\ r.next_state = "identity_verification"
                /\ StartsWith(r.message, "I can help you reschedule")
               -> "reschedule"
          [] r.next_state = "time_update"
             \/ /\ r.next_state = "identity_verification"
                /\ StartsWith(r.message, "I can help you change the delivery time")
               -> "update_time"
          [] r.next_state = "completed" /\ ~r.continue_conversation -> "farewell"
          [] OTHER -> "unclear"

\* C6: a turn handled by intent detection whose utterance matches the keyword
\* sets of two or more categories takes the flow of the earliest of them
C6_IntentPrecedence ==
    (/\ Handled
     /\ last.state \in IntentStates
     /\ Cardinality(MatchedCategories[UserMessage]) >= 2)
      => LET matched == MatchedCategories[UserMessage]
             first == CHOOSE k \in matched : \A j \in matched : k <= j
         IN  FlowTaken = Categories[first]

\* "cancel my shipment and track it" has been routed to cancellation
C6_Witness ==
    /\ Handled
    /\ last.state = "intent_detection"
    /\ last.user_text = "cancel my shipment and track it"
    /\ {2, 3} \subseteq MatchedCategories[UserMessage]
    /\ last.response.next_state = "cancellation"
    /\ FlowTaken = "cancel"

\* the booking slots in the order they are asked for
BookingSteps == <<"customer_name", "pickup_address", "delivery_address", "delivery_date">>

\* the shortest answer accepted for each of the first three slots
MinLength == <<2, 3, 3>>

\* the position in BookingSteps of the step named by a context
BookingStepOf(context) ==
    CHOOSE k \in 1..Len(BookingSteps) :
       BookingSteps[k] = GetOr(context, "booking_step", "customer_name")

\* the last turn was handled by the booking flow
BookingTurn ==
    /\ Handled
    /\ last.state = "booking"
    /\ GetOr(last.context, "booking_step", "customer_name")
         \in {BookingSteps[k] : k \in 1..Len(BookingSteps)}

\* the last booking turn re-prompted: same state, same step, same slots, and
\* nothing asked of the store
BookingUnchanged ==
    /\ last.response.next_state = "booking"
    /\ last.response.context = last.context
    /\ last.response.calls = <<>>

\* C7: booking_step moves only along customer_name, pickup_address,
\* delivery_address, delivery_date: a valid answer advances it by one step and
\* stores the slot, an empty or too-short answer or an unparsable date leaves
\* step, slots and state unchanged, and the store's book is invoked only from
\* the delivery_date step
C7_BookingOrder ==
    /\ BookingTurn =>
         LET k == BookingStepOf(last.context)
         IN  /\ (k <= 3 /\ Len(UserMessage) >= MinLength[k]) =>
                   /\ last.response.next_state = "booking"
                   /\ last.response.context["booking_step"] = BookingSteps[k + 1]
                   /\ BookingSteps[k] \in DOMAIN last.response.context
                   /\ \A key \in DOMAIN last.context \ {"booking_step", BookingSteps[k]} :
                        last.response.context[key] = last.context[key]
                   /\ last.response.calls = <<>>
             /\ (k <= 3 /\ Len(UserMessage) < MinLength[k]) => BookingUnchanged
             /\ (k = 4 /\ \A now \in CurrentDates : Hear(UserMessage).date[now] = None)
                   => BookingUnchanged
             /\ last.response.next_state = "booking" =>
                   BookingStepOf(last.response.context) \in {k, k + 1}
    /\ (Turn /\ \E c \in CallsOfTurn : c.op = "book_shipment") =>
         /\ last.state = "booking"
         /\ Get(last.context, "booking_step") = "delivery_date"

\* a date answered at the delivery_date step, after the three other slots,
\* has booked the shipment
C7_Witness ==
    /\ BookingTurn
    /\ BookingStepOf(last.context) = 4
    /\ {"customer_name", "pickup_address", "delivery_address"} \subseteq DOMAIN last.context
    /\ Call("book_shipment", "10000001") \in CallsOfTurn
    /\ "10000001" \in DOMAIN store

\* the last turn was handled by identity verification with a tracking id in
\* the context
VerificationTurn ==
    /\ Handled
    /\ last.state = "identity_verification"
    /\ Get(last.context, "tracking_id") \notin {None, ""}

\* the caller of the last turn was let through
LetThrough ==
    /\ last.response.next_state \in
         {"cancellation", "address_update", "time_update", "rescheduling"}
    /\ last.response.continue_conversation = TRUE
    /\ "identity_verified" \in DOMAIN last.response.context
    /\ last.response.context["identity_verified"] = TRUE

\* C8: with a tracking id in the context, the caller is verified when the
\* shipment exists and the spoken name, compared case-insensitively, contains
\* or is contained in the stored name; otherwise (no match, or no shipment) the
\* turn hands off to a human and ends the conversation
C8_IdentityCheck ==
    VerificationTurn =>
      LET tracking_id == last.context["tracking_id"]
          exists == tracking_id \in DOMAIN last.store
          stored == Lower(last.store[tracking_id].customer_name)
          spoken == Lower(last.user_text)
      IN  IF exists /\ (Contains(stored, spoken) \/ Contains(spoken, stored))
            THEN LetThrough
            ELSE /\ last.response.next_state = "transfer_human"
                 /\ last.response.continue_conversation = FALSE

\* "John" has been accepted for the shipment of John Smith
C8_Witness ==
    /\ VerificationTurn
    /\ last.user_text = "John"
    /\ last.context["tracking_id"] = "12345678"
    /\ last.store["12345678"].customer_name = "John Smith"
    /\ LetThrough

\* C9: a verified caller goes to the state and sub-step selected by the
\* context's action: cancel to cancellation / confirm_cancellation,
\* update_address to address_update / select_address_type, update_time to
\* time_update / get_new_time, anything else to rescheduling / get_new_date;
\* the context keeps its tracking_id and gains identity_verified = true
C9_VerifiedRouting ==
    (/\ VerificationTurn
     /\ last.response.continue_conversation = TRUE)
      => LET action == Get(last.context, "action")
             c == last.response.context
         IN  /\ CASE action = "cancel" ->
                       /\ last.response.next_state = "cancellation"
                       /\ c["step"] = "confirm_cancellation"
                  [] action = "update_address" ->
                       /\ last.response.next_state = "address_update"
                       /\ c["step"] = "select_address_type"
                  [] action = "update_time" ->
                       /\ last.response.next_state = "time_update"
                       /\ c["step"] = "get_new_time"
                  [] OTHER ->
                       /\ last.response.next_state = "rescheduling"
                       /\ c["reschedule_step"] = "get_new_date"
             /\ c["tracking_id"] = last.context["tracking_id"]
             /\ c["identity_verified"] = TRUE

\* a caller who asked for a new delivery time has been verified and is asked
\* for the time
C9_Witness ==
    /\ VerificationTurn
    /\ Get(last.context, "action") = "update_time"
    /\ last.response.next_state = "time_update"
    /\ last.response.context["step"] = "get_new_time"
    /\ last.response.context["identity_verified"] = TRUE

\* the suffixes that replace a trailing 00, in ascending order
Suffixes == <<"01", "02", "03", "04", "05", "06", "07", "08", "09">>

\* C10: the lookup tries the identifier verbatim and returns that shipment if
\* present; only when it is absent and has exactly 8 characters ending in 00
\* does it try the identifiers ending in 01 .. 09 in ascending order, returning
\* the first one present and reporting not-found when none is; any other
\* absent identifier is reported not-found with no further attempt
C10_Lookup ==
    last.kind = "lookup" =>
      LET id == last.tracking_id
          r == last.response
          tried == [i \in 1..Len(r.calls) |-> r.calls[i].tracking_id]
          variant(k) == SubSeq(id, 1, Len(id) - 2) \o Suffixes[k]
          hits == {k \in 1..9 : variant(k) \in DOMAIN store}
          first == CHOOSE k \in hits : \A j \in hits : k <= j
      IN  /\ \A i \in 1..Len(r.calls) : r.calls[i].op = "get_shipment"
          /\ IF id \in DOMAIN store
               THEN r.success /\ r.data.tracking_id = id /\ tried = <<id>>
             ELSE IF Len(id) = 8 /\ SubSeq(id, 7, 8) = "00"
               THEN IF hits = {}
                      THEN ~r.success /\ tried = <<id>> \o [k \in 1..9 |-> variant(k)]
                      ELSE /\ r.success
                           /\ r.data.tracking_id = variant(first)
                           /\ tried = <<id>> \o [k \in 1..first |-> variant(k)]
               ELSE ~r.success /\ tried = <<id>>

\* 12345600 is absent, 12345603 and 12345607 are present, and the lookup of
\* 12345600 has returned 12345603
C10_Witness ==
    /\ last.kind = "lookup"
    /\ last.tracking_id = "12345600"
    /\ DOMAIN store = {"12345603", "12345607"}
    /\ last.response.success
    /\ last.response.data.tracking_id = "12345603"

\* the maximal runs of digits of s, as pairs of their first and last position
MaximalDigitRuns(s) ==
    {p \in (1..Len(s)) \X (1..Len(s)) :
       /\ p[1] <= p[2]
       /\ \A k \in p[1]..p[2] : CharAt(s, k) \in Digits
       /\ (p[1] = 1 \/ CharAt(s, p[1] - 1) \notin Digits)
       /\ (p[2] = Len(s) \/ CharAt(s, p[2] + 1) \notin Digits)}

\* the runs of seven or eight digits with a word boundary on either side
EligibleRuns(s) ==
    {p \in MaximalDigitRuns(s) :
       /\ p[2] - p[1] + 1 \in {7, 8}
       /\ (p[1] = 1 \/ ~IsWordChar(CharAt(s, p[1] - 1)))
       /\ (p[2] = Len(s) \/ ~IsWordChar(CharAt(s, p[2] + 1)))}

\* C11: the extractor returns the first run of 7 or 8 digits bounded by word
\* boundaries as an identifier of exactly 8 digits, a 7-digit run prefixed with
\* one 0 and an 8-digit run unchanged, and returns absent when the message has
\* no such run
C11_Extractor ==
    last.kind = "extract" =>
      LET runs == EligibleRuns(last.message)
          first == CHOOSE p \in runs : \A q \in runs : p[1] <= q[1]
          digits == SubSeq(last.message, first[1], first[2])
      IN  IF runs = {} THEN last.tracking_id = None
          ELSE /\ last.tracking_id # None
               /\ Len(last.tracking_id) = 8
               /\ AllDigits(last.tracking_id)
               /\ last.tracking_id = IF Len(digits) = 7 THEN "0" \o digits ELSE digits

\* a run of seven digits between two words has been padded, although a run of
\* nine digits comes first
C11_Witness ==
    /\ last.kind = "extract"
    /\ last.message = "123456789 1234567 now"
    /\ last.tracking_id = "01234567"

\* the states the dialogue engine treats as the end of the dialogue
TerminalStates == {"completion", "transfer_human"}

\* C12: completion and transfer_human are terminal: a turn served in one of
\* them runs no flow handler, so it routes no intent (its next state is
\* terminal again) and invokes no store operation
C12_Terminal ==
    (Turn /\ last.state \in TerminalStates) =>
      /\ last.response.calls = <<>>
      /\ store = last.store
      /\ last.response.next_state \in TerminalStates


\* the values of self.states
ConversationStates ==
    {"greeting", "intent_detection", "tracking", "booking", "rescheduling",
     "cancellation", "address_update", "time_update", "identity_verification",
     "completion", "transfer_human"}

\* C13: the next_state of every Turn Result is one of the eleven
\* ConversationState values
C13_NextStateEnumerated ==
    (Turn /\ last.response.outcome = "result") =>
      last.response.next_state \in ConversationStates


\* a store operation of the last turn raised something other than the
\* ValueError of a refused request: the database could not be reached, or the
\* identifier drawn for a booking was taken
SystemFailure ==
    /\ Turn
    /\ last.response.calls # <<>>
    /\ \/ Unreachable(last.response.store)
       \/ \E c \in CallsOfTurn :
            c.op = "book_shipment" /\ c.tracking_id \in DOMAIN last.store

\* C14: a turn in which a store operation fails with a system failure ends
\* with next_state transfer_human and continue_conversation false, whatever
\* the flow
C14_SystemFailureHandsOff ==
    SystemFailure =>
      /\ last.response.outcome = "result"
      /\ last.response.next_state = "transfer_human"
      /\ ~last.response.continue_conversation


\* C15: an exception raised in a handler does not leave process_message: the
\* call returns next_state transfer_human with continue_conversation false,
\* and the store is left as the turn found it
C15_CatchAll ==
    (Turn /\ last.response.raised) =>
      /\ last.response.outcome = "result"
      /\ last.response.next_state = "transfer_human"
      /\ ~last.response.continue_conversation
      /\ CallsOfTurn = {}
      /\ store = last.store

\* a turn of rescheduling or booking raised on a missing slot
C15_Witness ==
    /\ Turn
    /\ last.response.raised
    /\ last.state \in {"booking", "rescheduling"}


\* the positions of the mutating operations among the calls of the last turn
MutatingCalls ==
    {i \in 1..Len(last.response.calls) : last.response.calls[i].op \in Mutating}

\* the last turn asks again for what it did not get: no tracking id where one
\* is awaited, a slot value that is too short, a booking or reschedule date
\* that does not parse, an address type that is neither pickup nor delivery
Reprompts ==
    /\ Handled
    /\ \/ /\ last.state = "tracking"
          /\ Get(last.context, "tracking_id") \in {None, ""}
          /\ EligibleRuns(UserMessage) = {}
       \/ /\ last.state = "rescheduling"
          /\ GetOr(last.context, "reschedule_step", "get_tracking_id") = "get_tracking_id"
          /\ EligibleRuns(UserMessage) = {}
       \/ /\ last.state \in {"cancellation", "address_update", "time_update"}
          /\ GetOr(last.context, "step", "get_tracking_id") = "get_tracking_id"
          /\ EligibleRuns(UserMessage) = {}
       \/ /\ last.state = "booking"
          /\ \/ /\ GetOr(last.context, "booking_step", "customer_name") = "customer_name"
                /\ Len(Strip(UserMessage)) < 2
             \/ /\ Get(last.context, "booking_step") \in {"pickup_address", "delivery_address"}
                /\ Len(Strip(UserMessage)) < 3
             \/ /\ Get(last.context, "booking_step") = "delivery_date"
                /\ \A now \in CurrentDates : Hear(UserMessage).date[now] = None
       \/ /\ last.state = "rescheduling"
          /\ Get(last.context, "reschedule_step") = "get_new_date"
          /\ \A now \in CurrentDates : Hear(UserMessage).date[now] = None
       \/ /\ last.state = "address_update"
          /\ Get(last.context, "step") = "select_address_type"
          /\ Hear(UserMessage).address_type = None

\* C16: a turn invokes at most one mutating store operation, and a turn that
\* re-prompts invokes none and leaves the store as it was
C16_OneMutationPerTurn ==
    Turn =>
      /\ Cardinality(MutatingCalls) <= 1
      /\ Reprompts => (MutatingCalls = {} /\ store = last.store)

\* a verified caller's reschedule date does not parse and is asked for again
C16_Witness ==
    /\ Reprompts
    /\ last.state = "rescheduling"
    /\ Get(last.context, "reschedule_step") = "get_new_date"
    /\ last.response.next_state = "rescheduling"
    /\ last.verified # None


\* the last turn ended a cancellation, address-update or time-update flow: the
\* handler answered with a state other than its own and other than the
\* identity check
FlowEnds ==
    /\ Handled
    /\ last.state \in {"cancellation", "address_update", "time_update"}
    /\ last.response.next_state \notin {last.state, "identity_verification"}

\* C17: the cancellation, address-update and time-update flows return an empty
\* context on every terminal outcome, success or failure
C17_EmptyContextAtEnd ==
    FlowEnds => last.response.context = EmptyContext


\* the last turn booked a shipment
Booked ==
    /\ Handled
    /\ last.state = "booking"
    /\ \E c \in CallsOfTurn :
         /\ c.op = "book_shipment"
         /\ c.tracking_id \notin DOMAIN last.store
         /\ c.tracking_id \in DOMAIN store

\* the last turn rescheduled a shipment
Rescheduled ==
    /\ Handled
    /\ last.state = "rescheduling"
    /\ \E c \in CallsOfTurn :
         /\ c.op = "update_shipment"
         /\ c.tracking_id \in DOMAIN last.store
         /\ store[c.tracking_id].status = "rescheduled"

\* C18: a successful booking returns the context {last_booking} and a
\* successful rescheduling the context {last_update}, each with next_state
\* intent_detection and continue_conversation true; no slot key of the flow
\* remains in it
C18_SummaryContext ==
    /\ Booked => /\ DOMAIN last.response.context = {"last_booking"}
                 /\ last.response.context["last_booking"].tracking_id \in DOMAIN store
                 /\ last.response.next_state = "intent_detection"
                 /\ last.response.continue_conversation
    /\ Rescheduled => /\ DOMAIN last.response.context = {"last_update"}
                      /\ last.response.context["last_update"].status = "rescheduled"
                      /\ last.response.next_state = "intent_detection"
                      /\ last.response.continue_conversation

\* a booking succeeded from a context that held the three slots and the step
C18_Witness ==
    /\ Booked
    /\ {"customer_name", "pickup_address", "delivery_address", "booking_step"}
         \subseteq DOMAIN last.context
    /\ DOMAIN last.response.context = {"last_booking"}


\* C19: process_message leaves the dictionary it is handed as it was: after a
\* turn the caller's context has the keys and values it had before the call
C19_ContextByValue ==
    Turn => last.response.ctx_in = last.context


\* the session of call_sid, if it has one
SessionOf(call_sid) ==
    {active_calls[sid] : sid \in DOMAIN active_calls \cap {call_sid}}

\* the step is one of call_sid: its voice webhook, its transfer webhook, or a
\* step of its process-speech request
StepOf(call_sid) ==
    \/ handle_voice_call(call_sid)
    \/ transfer_to_human(call_sid)
    \/ Without(in_flight', call_sid) = Without(in_flight, call_sid)
       /\ in_flight' # in_flight

\* C20: whatever the interleaving of the requests of two calls, the stored
\* conversation_state and context of a call change only in steps of that call
C20_SessionIsolation ==
    [][\A call_sid \in Callers :
         SessionOf(call_sid)' # SessionOf(call_sid) => StepOf(call_sid)]_vars

\* both calls are in the middle of a flow, each with a context of its own,
\* while a request of CA2 is being served
C20_Witness ==
    /\ DOMAIN active_calls = Callers
    /\ active_calls["CA1"].conversation_state = "identity_verification"
    /\ Get(active_calls["CA1"].context, "tracking_id") = "12345678"
    /\ active_calls["CA2"].context # active_calls["CA1"].context
    /\ "CA2" \in DOMAIN in_flight
    /\ last.kind = "turn"
    /\ last.call_sid = "CA2"
    /\ last.response.ctx_in # last.context


\* C21: a second invocation of process_message with the utterance, state and
\* context of the first yields the next_state, context and
\* continue_conversation of the first and leaves the store as the first left it
C21_IdempotentTurn ==
    last.kind = "again" =>
      /\ last.response.outcome = last.first.response.outcome
      /\ last.response.next_state = last.first.response.next_state
      /\ last.response.context = last.first.response.context
      /\ last.response.continue_conversation
           = last.first.response.continue_conversation
      /\ store = last.store


\* the last turn was a tracking request: a turn of state tracking, or a turn
\* of intent detection whose utterance asks to track
TrackingTurn ==
    /\ Handled
    /\ \/ last.state = "tracking"
       \/ last.state \in IntentStates /\ Hear(UserMessage).intent = "track"

\* the rows the lookups of the last turn found
FoundByTurn ==
    {c.tracking_id : c \in {d \in CallsOfTurn : d.op = "get_shipment"}}
      \cap DOMAIN last.store

\* C22: a tracking request leaves the store alone; when the shipment is found
\* the result is intent_detection, continuing, with a message that tells the
\* status and the delivery date and the context {last_tracking_id}; when the
\* utterance holds no tracking id the turn answers tracking and the context
\* it was given
C22_Tracking ==
    TrackingTurn =>
      /\ store = last.store
      /\ MutatingCalls = {}
      /\ \A id \in FoundByTurn :
           /\ last.response.next_state = "intent_detection"
           /\ last.response.continue_conversation
           /\ \E i \in 1..Len(last.response.message) :
                Lower(SubSeq(last.response.message, i,
                             i + Len(last.store[id].status) - 1))
                  = last.store[id].status
           /\ Contains(last.response.message, last.store[id].delivery_date)
           /\ DOMAIN last.response.context = {"last_tracking_id"}
      /\ EligibleRuns(UserMessage) = {}
           => /\ last.response.next_state = "tracking"
              /\ last.response.context = last.context


RECURSIVE Decimal(_)
\* str(n) of a natural number
Decimal(n) ==
    IF n < 10 THEN SubSeq("0123456789", n + 1, n + 1)
    ELSE Decimal(n \div 10) \o SubSeq("0123456789", (n % 10) + 1, (n % 10) + 1)

\* the calendar day after the date d, both as YYYY-MM-DD
DayAfter(d) ==
    LET y == ToInt(SubSeq(d, 1, 4))
        m == ToInt(SubSeq(d, 6, 7))
        day == ToInt(SubSeq(d, 9, 10))
    IN  IF day < DaysIn(y, m) THEN SubSeq(d, 1, 8) \o ZFill2(Decimal(day + 1))
        ELSE IF m < 12 THEN SubSeq(d, 1, 5) \o MonthNum(m + 1) \o "-01"
        ELSE Decimal(y + 1) \o "-01-01"

\* C23: on the current date D the utterance "today" parses to D and the
\* utterance "tomorrow" to the day after D
C23_RelativeDates ==
    last.kind = "parse" =>
      /\ Strip(Lower(last.date_string)) = "today" => last.date = last.now
      /\ Strip(Lower(last.date_string)) = "tomorrow" => last.date = DayAfter(last.now)


\* C24: in intent_detection an utterance that contains "reschedule" and no
\* cancellation, tracking or address-update keyword is routed to rescheduling:
\* identity_verification when it carries a tracking id, otherwise state
\* rescheduling with reschedule_step get_tracking_id
C24_RescheduleRouted ==
    ( /\ last.kind = "turn"
      /\ last.state = "intent_detection"
      /\ Contains(UserMessage, "reschedule")
      /\ ~_wants_to_cancel(UserMessage)
      /\ ~_wants_to_track(UserMessage)
      /\ ~_wants_to_update_address(UserMessage) )
    => IF _extract_tracking_id(UserMessage) # None
         THEN last.response.next_state = "identity_verification"
         ELSE /\ last.response.next_state = "rescheduling"
              /\ Get(last.response.context, "reschedule_step") = "get_tracking_id"


\* C25: the word "shipment" alone triggers no intent: in intent_detection the
\* utterance "my shipment" gets the fallback, next_state intent_detection with
\* the context unchanged and the capabilities menu
C25_ShipmentAlone ==
    ( /\ last.kind = "turn"
      /\ last.state = "intent_detection"
      /\ UserMessage \in {"my shipment", "shipment"} )
    => /\ last.response.next_state = "intent_detection"
       /\ last.response.context = last.context
       /\ last.response.continue_conversation
       /\ Contains(last.response.message, "I can help with tracking shipments")


\* C26: a turn of state tracking whose utterance contains a tracking id looks
\* up the spoken shipment, also when an earlier lookup of the call found
\* nothing: the first lookup of the turn is for the spoken id
C26_TracksSpoken ==
    ( /\ Handled
      /\ last.state = "tracking"
      /\ Hear(UserMessage).tracking_id # None )
    => /\ last.response.calls # <<>>
       /\ last.response.calls[1] = Call("get_shipment", Hear(UserMessage).tracking_id)


\* C27: through the webhook loop, after a turn whose result has an empty
\* context and continues the conversation, the context the call's next turn is
\* given is empty: no tracking_id, action, step, address_type or
\* identity_verified of the finished flow is left in it
C27_EmptyContextCarried ==
    ( /\ Turn
      /\ last.call_sid \in DOMAIN active_calls
      /\ last.response.outcome = "result"
      /\ last.response.context = EmptyContext
      /\ last.response.continue_conversation )
    => active_calls[last.call_sid].context = EmptyContext


\* the last turn was a request to reschedule that sent the caller to identity
\* verification
RescheduleAwaitsIdentity ==
    /\ Handled
    /\ \/ last.state \in IntentStates /\ Hear(UserMessage).intent = "reschedule"
       \/ last.state = "rescheduling"
    /\ last.response.continue_conversation
    /\ last.response.next_state = "identity_verification"

\* C28: through the webhook loop, a caller sent to identity verification by a
\* reschedule request and verified in the next turn of the call is then asked
\* for the new date: state rescheduling with reschedule_step get_new_date,
\* whatever was handled earlier in the call
C28_VerifiedReschedule ==
    [][ ( /\ RescheduleAwaitsIdentity
          /\ last'.kind = "turn"
          /\ last'.call_sid = last.call_sid
          /\ last'.state = "identity_verification"
          /\ last'.response.outcome = "result"
          /\ last'.response.calls # <<>>
          /\ last'.response.continue_conversation )
        => /\ last'.response.next_state = "rescheduling"
           /\ Get(last'.response.context, "reschedule_step") = "get_new_date" ]_vars


\* C29: when the caller keeps the returned context in place of the one it
\* passed, from state greeting with the empty context, no turn is served in
\* or leads to state cancellation with step confirm_cancellation, and every
\* cancel_shipment call is made by a turn of intent detection or of state
\* cancellation at step get_tracking_id
C29_NoConfirmationTurn ==
    Turn =>
      /\ ~( last.state = "cancellation"
            /\ Get(last.context, "step") = "confirm_cancellation" )
      /\ ~( last.response.outcome = "result"
            /\ last.response.next_state = "cancellation"
            /\ Get(last.response.context, "step") = "confirm_cancellation" )
      /\ \A c \in CallsOfTurn :
           c.op = "cancel_shipment"
             => \/ last.state \in IntentStates
                \/ /\ last.state = "cancellation"
                   /\ GetOr(last.context, "step", "get_tracking_id") = "get_tracking_id"

\* a turn of state cancellation at step get_tracking_id, reached through a
\* cancellation request without an id, has cancelled the spoken shipment and
\* returned to intent detection with the empty context
C29_Witness ==
    /\ Turn
    /\ last.state = "cancellation"
    /\ Get(last.context, "action") = "cancel"
    /\ Get(last.context, "step") = "get_tracking_id"
    /\ Call("cancel_shipment", "12345678") \in CallsOfTurn
    /\ store["12345678"].status = "cancelled"
    /\ last.response.next_state = "intent_detection"
    /\ last.response.context = EmptyContext


\* C30: an empty or whitespace-only utterance in state identity_verification
\* is never verified: the turn does not mark the context identity_verified
\* and does not continue in a state from which the shipment can be modified
\* (rescheduling at get_new_date, cancellation, address_update, time_update)
C30_EmptyNameNotVerified ==
    ( /\ Turn
      /\ last.state = "identity_verification"
      /\ UserMessage = ""
      /\ last.response.outcome = "result" )
    => ~( /\ last.response.continue_conversation
          /\ Get(last.response.context, "identity_verified") = TRUE
          /\ \/ last.response.next_state \in {"cancellation", "address_update", "time_update"}
             \/ /\ last.response.next_state = "rescheduling"
                /\ Get(last.response.context, "reschedule_step") = "get_new_date" )


\* the utterance of the last turn names the pickup address, the delivery
\* address (by the words the address flow listens for)
NamesPickup == ContainsAny(UserMessage, {"pickup", "pick up", "pick-up", "from"})

NamesDelivery == ContainsAny(UserMessage, {"delivery", "deliver", "to", "destination"})

\* C31: in state address_update at step select_address_type an utterance that
\* names neither address kind, or both, re-prompts: next_state address_update,
\* step still select_address_type and no address_type set
C31_AmbiguousKindReprompts ==
    ( /\ Handled
      /\ last.state = "address_update"
      /\ Get(last.context, "step") = "select_address_type"
      /\ "address_type" \notin DOMAIN last.context
      /\ NamesPickup = NamesDelivery )
    => /\ last.response.next_state = "address_update"
       /\ last.response.continue_conversation
       /\ Get(last.response.context, "step") = "select_address_type"
       /\ "address_type" \notin DOMAIN last.response.context


\* C32: in state address_update at step get_new_address an empty or too-short
\* utterance re-prompts in the same state and step and update_address is not
\* invoked, so no address of the table becomes the empty string
C32_ShortAddressReprompts ==
    /\ ( /\ Handled
         /\ last.state = "address_update"
         /\ Get(last.context, "step") = "get_new_address"
         /\ TooShort(UserMessage, 2) )
       => /\ last.response.next_state = "address_update"
          /\ last.response.continue_conversation
          /\ Get(last.response.context, "step") = "get_new_address"
          /\ \A c \in CallsOfTurn : c.op # "update_shipment_address"
          /\ store = last.store
    /\ \A id \in DOMAIN store \ {Outage} :
         store[id].pickup_address # "" /\ store[id].delivery_address # ""


\* C33: a shipment is cancelled with success at most once: of all the
\* invocations of cancel_shipment for one tracking id, also those of two
\* calls whose SELECT and UPDATE interleave, at most one returns and the
\* others raise
C33_CancelledOnce ==
    last.kind = "cancels" => \A id \in CancelIds : last.succeeded[id] <= 1


\* both requests have returned
BothReturned ==
    /\ last.kind = "overlap"
    /\ DOMAIN in_flight = OverlapRequests
    /\ \A request \in OverlapRequests : in_flight[request].pc = "done"

\* C34: when two process-speech requests for one call overlap, neither fails
\* and the sessions after both equal the sessions after the two utterances
\* processed one after the other, in one of the two orders
C34_OverlapSerializable ==
    BothReturned =>
      /\ last.failed = {}
      /\ \/ active_calls = OneAfterTheOther(in_flight["R1"].user_text, in_flight["R2"].user_text)
         \/ active_calls = OneAfterTheOther(in_flight["R2"].user_text, in_flight["R1"].user_text)


\* C35: through the webhook loop, a request whose turn returns
\* continue_conversation false leaves the call without a session, and a
\* request for a call without a session returns without a turn of the agent
\* and without a store operation
C35_EndedCallStaysEnded ==
    [][ turns' = turns + 1 =>
          /\ ( /\ last'.kind = "turn"
               /\ last'.response.outcome = "result"
               /\ ~last'.response.continue_conversation )
             => last'.call_sid \notin DOMAIN active_calls'
          /\ last'.call_sid \notin DOMAIN active_calls
             => /\ last'.kind = "no_session"
                /\ store' = store
                /\ active_calls' = active_calls ]_vars


\* C36: a book that succeeds adds one record, under a tracking id of eight
\* digits that the store did not hold, with status booked, and leaves every
\* other record as it was; a book that fails leaves the store as it was; also
\* when two calls book at the same time
C36_BookAddsOneRecord ==
    (last.kind = "books" /\ last.exc # None) =>
      IF last.exc = ""
        THEN /\ last.tracking_id \notin DOMAIN last.before
             /\ Len(last.tracking_id) = 8
             /\ AllDigits(last.tracking_id)
             /\ DOMAIN store = DOMAIN last.before \cup {last.tracking_id}
             /\ store[last.tracking_id].status = "booked"
             /\ \A id \in DOMAIN last.before : store[id] = last.before[id]
        ELSE store = last.before

\* a book has succeeded while the other call, which drew the same tracking
\* id, waits for its INSERT
C36_Witness ==
    /\ last.kind = "books"
    /\ last.exc = ""
    /\ store[last.tracking_id].status = "booked"
    /\ \E call_sid \in DOMAIN in_flight :
         in_flight[call_sid].tracking_id = last.tracking_id


C38_AlwaysAResult ==
    Turn =>
      /\ last.response.outcome = "result"
      /\ last.response.message # ""
      /\ last.response.next_state # None
      /\ last.response.continue_conversation \in BOOLEAN


\* a turn of state time_update at step get_new_time, reached through identity
\* verification, has called update_delivery_time and returned a result
C38_Witness ==
    /\ Turn
    /\ last.state = "time_update"
    /\ Get(last.context, "step") = "get_new_time"
    /\ Get(last.context, "identity_verified") = TRUE
    /\ last.response.outcome = "result"
    /\ \E c \in CallsOfTurn : c.op = "update_delivery_time"


\* C39: in every result of a turn, continue_conversation is false exactly
\* when the result hands the call to a human (next_state transfer_human) or
\* is the farewell (next_state completed); every other result, those with
\* next_state completion included, continues the conversation
C39_ContinueUnlessHandedOff ==
    (Turn /\ last.response.outcome = "result") =>
      ( ~last.response.continue_conversation
          <=> last.response.next_state \in {"transfer_human", "completed"} )

\* a turn has ended a flow with a store operation and next_state completion,
\* and continues the conversation
C39_Witness ==
    /\ Turn
    /\ last.response.outcome = "result"
    /\ last.response.next_state = "completion"
    /\ last.response.continue_conversation
    /\ last.response.calls # <<>>

====
